---- MODULE Spec2Model ----
(***************************************************************************)
(* Model of app/conversores/full_convert.py: the converter of a legacy      *)
(* (1.7.10) ModelBase source text into a modern (1.21.1) EntityModel.       *)
(*                                                                          *)
(* The source text is a sequence of statements; every regular expression    *)
(* of the extractor is an operator over that sequence which returns what    *)
(* re.search / re.findall returns on the text.  Python floats are kept in   *)
(* halves (the float 2.5 is the integer 5), so that int() truncation is     *)
(* visible.  Text built by concatenation is a tuple of its fragments.       *)
(***************************************************************************)
EXTENDS Integers, Sequences, FiniteSets, TLC

\* Longest source text, in statements.
MaxStmts == 3
\* Calls of the handler in flight at once.
MaxCalls == 2
\* Applications of normalize_part_name in a row, starting from one name.
MaxNormalize == 2

\* info['texture_width'] / info['texture_height'] before any match.
DefaultTextureWidth == 256
DefaultTextureHeight == 128

Min(S) == CHOOSE i \in S : \A j \in S : i <= j

(***************************************************************************)
(* Literals.                                                                *)
(***************************************************************************)
\* float(x.strip().replace('f', '')) on the literals used below, in halves;
\* a literal outside the domain makes float() raise ValueError
\* ("1.0F": the capital F survives replace('f', ''); "1.2.3": two dots).
float_of_literal ==
    "0" :> 0 @@ "1" :> 2 @@ "2" :> 4 @@ "3" :> 6 @@ "5" :> 10 @@ "8" :> 16
    @@ "-2" :> -4 @@ "-4.0f" :> -8 @@ "2.5f" :> 5 @@ "1.5f" :> 3

\* int(s) on the same literals (whole units); outside the domain int()
\* raises ValueError.
int_of_literal ==
    "0" :> 0 @@ "1" :> 1 @@ "2" :> 2 @@ "3" :> 3 @@ "5" :> 5 @@ "8" :> 8
    @@ "-2" :> -2

\* The text matched by (\d+) right after "this.textureWidth = ": a literal
\* outside the domain ("-5") does not start with a digit and is no match.
digits_of_literal == "0" :> 0 @@ "32" :> 32 @@ "64" :> 64

\* Literals matched by ([\d\.]+f?) after "this.wingspeed = ".
wingspeed_literals == {"1.5f", "1.2.3"}

\* py_int repairing the value as it truncates: max(1, abs(x)).
py_int_repaired(h) ==
    LET a == IF h < 0 THEN -h ELSE h
    IN IF a \div 2 >= 1 THEN a \div 2 ELSE 1

\* py_int rounding away from zero instead of toward it.
py_int_away_from_zero(h) ==
    IF h >= 0 THEN (h + 1) \div 2 ELSE -((-h + 1) \div 2)

\* int(x) of a Python float, in whole units: truncation toward zero.
py_int(h) == IF h >= 0 THEN h \div 2 ELSE -((-h) \div 2)

(***************************************************************************)
(* normalize_part_name and str.lower.                                       *)
(***************************************************************************)
name_mappings ==
    [ lefteye |-> "leftEye", righteye |-> "rightEye", Lefteye |-> "leftEye", Righteye |-> "rightEye",
      LeftEye |-> "leftEye", RightEye |-> "rightEye", LeftShoulder |-> "leftShoulder", RightShoulder |-> "rightShoulder",
      leftShoulder |-> "leftShoulder", rightShoulder |-> "rightShoulder", LeftArmSeg1 |-> "leftArmSeg1", LeftArmSeg2 |-> "leftArmSeg2",
      LeftArmSeg3 |-> "leftArmSeg3", LeftArmSeg4 |-> "leftArmSeg4", RightArmSeg1 |-> "rightArmSeg1", RightArmSeg2 |-> "rightArmSeg2",
      RightArmSeg3 |-> "rightArmSeg3", RightArmSeg4 |-> "rightArmSeg4", LeftPincer |-> "leftPincer", RightPincer |-> "rightPincer",
      LeftMandible |-> "leftMandible", RightMandible |-> "rightMandible", LeftManPart2 |-> "leftManPart2", RightManPart2 |-> "rightManPart2",
      Head |-> "head", Seg1 |-> "seg1", Seg2 |-> "seg2", Seg3 |-> "seg3",
      Seg4 |-> "seg4", Seg5 |-> "seg5", Seg6 |-> "seg6", Seg7 |-> "seg7",
      Seg8 |-> "seg8", Tailseg1 |-> "tailseg1", Tailseg2 |-> "tailseg2", Tailseg3 |-> "tailseg3",
      Tailseg4 |-> "tailseg4", Tailseg5 |-> "tailseg5", Tailseg6 |-> "tailseg6", Tailseg7 |-> "tailseg7",
      Tailseg8 |-> "tailseg8", Stinger1 |-> "stinger1", Stinger2 |-> "stinger2", Stinger3 |-> "stinger3",
      Leg1Seg1 |-> "leg1Seg1", Leg1Seg2 |-> "leg1Seg2", Leg1Seg3 |-> "leg1Seg3", Leg1Seg4 |-> "leg1Seg4",
      Leg1Seg5 |-> "leg1Seg5", Leg2Seg1 |-> "leg2Seg1", Leg2Seg2 |-> "leg2Seg2", Leg2Seg3 |-> "leg2Seg3",
      Leg2Seg4 |-> "leg2Seg4", Leg2Seg5 |-> "leg2Seg5", Leg3Seg1 |-> "leg3Seg1", Leg3Seg2 |-> "leg3Seg2",
      Leg3Seg3 |-> "leg3Seg3", Leg3Seg4 |-> "leg3Seg4", Leg3Seg5 |-> "leg3Seg5", Leg4Seg1 |-> "leg4Seg1",
      Leg4Seg2 |-> "leg4Seg2", Leg4Seg3 |-> "leg4Seg3", Leg4Seg4 |-> "leg4Seg4", Leg4Seg5 |-> "leg4Seg5",
      Leg5Seg1 |-> "leg5Seg1", Leg5Seg2 |-> "leg5Seg2", Leg5Seg3 |-> "leg5Seg3", Leg5Seg4 |-> "leg5Seg4",
      Leg5Seg5 |-> "leg5Seg5", Leg6Seg1 |-> "leg6Seg1", Leg6Seg2 |-> "leg6Seg2", Leg6Seg3 |-> "leg6Seg3",
      Leg6Seg4 |-> "leg6Seg4", Leg6Seg5 |-> "leg6Seg5", Leg7Seg1 |-> "leg7Seg1", Leg7Seg2 |-> "leg7Seg2",
      Leg7Seg3 |-> "leg7Seg3", Leg7Seg4 |-> "leg7Seg4", Leg7Seg5 |-> "leg7Seg5", Leg8Seg1 |-> "leg8Seg1",
      Leg8Seg2 |-> "leg8Seg2", Leg8Seg3 |-> "leg8Seg3", Leg8Seg4 |-> "leg8Seg4", Leg8Seg5 |-> "leg8Seg5",
      body |-> "head", Body |-> "head", torso |-> "seg1", Torso |-> "seg1",
      segment1 |-> "seg1", Segment1 |-> "seg1", segment2 |-> "seg2", Segment2 |-> "seg2",
      segment3 |-> "seg3", Segment3 |-> "seg3", segment4 |-> "seg4", Segment4 |-> "seg4",
      segment5 |-> "seg5", Segment5 |-> "seg5", segment6 |-> "seg6", Segment6 |-> "seg6",
      segment7 |-> "seg7", Segment7 |-> "seg7", segment8 |-> "seg8", Segment8 |-> "seg8" ]

\* normalize_part_name with the extra table entry 'head': 'body'.
normalize_part_name_head_to_body(old_name) ==
    IF old_name = "head" THEN "body"
    ELSE IF old_name \in DOMAIN name_mappings THEN name_mappings[old_name]
    ELSE old_name

normalize_part_name(old_name) ==
    IF old_name \in DOMAIN name_mappings THEN name_mappings[old_name] ELSE old_name

\* str.lower() on every part name of the model.
str_lower ==
    [ lefteye |-> "lefteye", righteye |-> "righteye", Lefteye |-> "lefteye", Righteye |-> "righteye",
      LeftEye |-> "lefteye", RightEye |-> "righteye", LeftShoulder |-> "leftshoulder", RightShoulder |-> "rightshoulder",
      leftShoulder |-> "leftshoulder", rightShoulder |-> "rightshoulder", LeftArmSeg1 |-> "leftarmseg1", LeftArmSeg2 |-> "leftarmseg2",
      LeftArmSeg3 |-> "leftarmseg3", LeftArmSeg4 |-> "leftarmseg4", RightArmSeg1 |-> "rightarmseg1", RightArmSeg2 |-> "rightarmseg2",
      RightArmSeg3 |-> "rightarmseg3", RightArmSeg4 |-> "rightarmseg4", LeftPincer |-> "leftpincer", RightPincer |-> "rightpincer",
      LeftMandible |-> "leftmandible", RightMandible |-> "rightmandible", LeftManPart2 |-> "leftmanpart2", RightManPart2 |-> "rightmanpart2",
      Head |-> "head", Seg1 |-> "seg1", Seg2 |-> "seg2", Seg3 |-> "seg3",
      Seg4 |-> "seg4", Seg5 |-> "seg5", Seg6 |-> "seg6", Seg7 |-> "seg7",
      Seg8 |-> "seg8", Tailseg1 |-> "tailseg1", Tailseg2 |-> "tailseg2", Tailseg3 |-> "tailseg3",
      Tailseg4 |-> "tailseg4", Tailseg5 |-> "tailseg5", Tailseg6 |-> "tailseg6", Tailseg7 |-> "tailseg7",
      Tailseg8 |-> "tailseg8", Stinger1 |-> "stinger1", Stinger2 |-> "stinger2", Stinger3 |-> "stinger3",
      Leg1Seg1 |-> "leg1seg1", Leg1Seg2 |-> "leg1seg2", Leg1Seg3 |-> "leg1seg3", Leg1Seg4 |-> "leg1seg4",
      Leg1Seg5 |-> "leg1seg5", Leg2Seg1 |-> "leg2seg1", Leg2Seg2 |-> "leg2seg2", Leg2Seg3 |-> "leg2seg3",
      Leg2Seg4 |-> "leg2seg4", Leg2Seg5 |-> "leg2seg5", Leg3Seg1 |-> "leg3seg1", Leg3Seg2 |-> "leg3seg2",
      Leg3Seg3 |-> "leg3seg3", Leg3Seg4 |-> "leg3seg4", Leg3Seg5 |-> "leg3seg5", Leg4Seg1 |-> "leg4seg1",
      Leg4Seg2 |-> "leg4seg2", Leg4Seg3 |-> "leg4seg3", Leg4Seg4 |-> "leg4seg4", Leg4Seg5 |-> "leg4seg5",
      Leg5Seg1 |-> "leg5seg1", Leg5Seg2 |-> "leg5seg2", Leg5Seg3 |-> "leg5seg3", Leg5Seg4 |-> "leg5seg4",
      Leg5Seg5 |-> "leg5seg5", Leg6Seg1 |-> "leg6seg1", Leg6Seg2 |-> "leg6seg2", Leg6Seg3 |-> "leg6seg3",
      Leg6Seg4 |-> "leg6seg4", Leg6Seg5 |-> "leg6seg5", Leg7Seg1 |-> "leg7seg1", Leg7Seg2 |-> "leg7seg2",
      Leg7Seg3 |-> "leg7seg3", Leg7Seg4 |-> "leg7seg4", Leg7Seg5 |-> "leg7seg5", Leg8Seg1 |-> "leg8seg1",
      Leg8Seg2 |-> "leg8seg2", Leg8Seg3 |-> "leg8seg3", Leg8Seg4 |-> "leg8seg4", Leg8Seg5 |-> "leg8seg5",
      body |-> "body", Body |-> "body", torso |-> "torso", Torso |-> "torso",
      segment1 |-> "segment1", Segment1 |-> "segment1", segment2 |-> "segment2", Segment2 |-> "segment2",
      segment3 |-> "segment3", Segment3 |-> "segment3", segment4 |-> "segment4", Segment4 |-> "segment4",
      segment5 |-> "segment5", Segment5 |-> "segment5", segment6 |-> "segment6", Segment6 |-> "segment6",
      segment7 |-> "segment7", Segment7 |-> "segment7", segment8 |-> "segment8", Segment8 |-> "segment8",
      leftEye |-> "lefteye", rightEye |-> "righteye", leftArmSeg1 |-> "leftarmseg1", leftArmSeg2 |-> "leftarmseg2",
      leftArmSeg3 |-> "leftarmseg3", leftArmSeg4 |-> "leftarmseg4", rightArmSeg1 |-> "rightarmseg1", rightArmSeg2 |-> "rightarmseg2",
      rightArmSeg3 |-> "rightarmseg3", rightArmSeg4 |-> "rightarmseg4", leftPincer |-> "leftpincer", rightPincer |-> "rightpincer",
      leftMandible |-> "leftmandible", rightMandible |-> "rightmandible", leftManPart2 |-> "leftmanpart2", rightManPart2 |-> "rightmanpart2",
      head |-> "head", seg1 |-> "seg1", seg2 |-> "seg2", seg3 |-> "seg3",
      seg4 |-> "seg4", seg5 |-> "seg5", seg6 |-> "seg6", seg7 |-> "seg7",
      seg8 |-> "seg8", tailseg1 |-> "tailseg1", tailseg2 |-> "tailseg2", tailseg3 |-> "tailseg3",
      tailseg4 |-> "tailseg4", tailseg5 |-> "tailseg5", tailseg6 |-> "tailseg6", tailseg7 |-> "tailseg7",
      tailseg8 |-> "tailseg8", stinger1 |-> "stinger1", stinger2 |-> "stinger2", stinger3 |-> "stinger3",
      leg1Seg1 |-> "leg1seg1", leg1Seg2 |-> "leg1seg2", leg1Seg3 |-> "leg1seg3", leg1Seg4 |-> "leg1seg4",
      leg1Seg5 |-> "leg1seg5", leg2Seg1 |-> "leg2seg1", leg2Seg2 |-> "leg2seg2", leg2Seg3 |-> "leg2seg3",
      leg2Seg4 |-> "leg2seg4", leg2Seg5 |-> "leg2seg5", leg3Seg1 |-> "leg3seg1", leg3Seg2 |-> "leg3seg2",
      leg3Seg3 |-> "leg3seg3", leg3Seg4 |-> "leg3seg4", leg3Seg5 |-> "leg3seg5", leg4Seg1 |-> "leg4seg1",
      leg4Seg2 |-> "leg4seg2", leg4Seg3 |-> "leg4seg3", leg4Seg4 |-> "leg4seg4", leg4Seg5 |-> "leg4seg5",
      leg5Seg1 |-> "leg5seg1", leg5Seg2 |-> "leg5seg2", leg5Seg3 |-> "leg5seg3", leg5Seg4 |-> "leg5seg4",
      leg5Seg5 |-> "leg5seg5", leg6Seg1 |-> "leg6seg1", leg6Seg2 |-> "leg6seg2", leg6Seg3 |-> "leg6seg3",
      leg6Seg4 |-> "leg6seg4", leg6Seg5 |-> "leg6seg5", leg7Seg1 |-> "leg7seg1", leg7Seg2 |-> "leg7seg2",
      leg7Seg3 |-> "leg7seg3", leg7Seg4 |-> "leg7seg4", leg7Seg5 |-> "leg7seg5", leg8Seg1 |-> "leg8seg1",
      leg8Seg2 |-> "leg8seg2", leg8Seg3 |-> "leg8seg3", leg8Seg4 |-> "leg8seg4", leg8Seg5 |-> "leg8seg5",
      tail1 |-> "tail1", tail2 |-> "tail2", tail3 |-> "tail3", wing1 |-> "wing1",
      wing2 |-> "wing2", wing3 |-> "wing3", mem1 |-> "mem1", mem2 |-> "mem2",
      mem3 |-> "mem3", lclaw1 |-> "lclaw1", rclaw1 |-> "rclaw1", wingclaw1 |-> "wingclaw1",
      Wing1 |-> "wing1", LEG1SEG1 |-> "leg1seg1", leg1seg1 |-> "leg1seg1", shape1 |-> "shape1" ]

lower(s) == str_lower[s]

(***************************************************************************)
(* Statements of the legacy source text.                                    *)
(***************************************************************************)
\* public class <name> extends <base> {
Cls(n, b) == [kind |-> "class", name |-> n, base |-> b]
\* this.textureWidth = <lit>;   this.textureHeight = <lit>;
TexW(l) == [kind |-> "textureWidth", lit |-> l]
TexH(l) == [kind |-> "textureHeight", lit |-> l]
\* this.wingspeed = <lit>;
Wing(l) == [kind |-> "wingspeed", lit |-> l]
\* ModelRenderer <name>;
Fld(n) == [kind |-> "field", name |-> n]
\* this.<name> = new ModelRenderer(this, u, v);
NewThis(n, u, v) == [kind |-> "new", form |-> "this", name |-> n, u |-> u, v |-> v]
\* ModelRenderer <name> = new ModelRenderer(this, u, v);
NewLocal(n, u, v) == [kind |-> "new", form |-> "local", name |-> n, u |-> u, v |-> v]
\* (this.<name> = new ModelRenderer((ModelBase)this, u, v)).addBox(<args>);
CastBox(n, u, v, a) == [kind |-> "castbox", name |-> n, u |-> u, v |-> v, args |-> a]
\* this.<name>.addBox(<args>);
AddBox(n, a) == [kind |-> "addBox", name |-> n, args |-> a]
\* this.<name>.setTextureOffset(u, v);
SetTex(n, u, v) == [kind |-> "setTextureOffset", name |-> n, u |-> u, v |-> v]
\* this.<name>.setRotationPoint(<args>);
SetRotPt(n, a) == [kind |-> "setRotationPoint", name |-> n, args |-> a]
\* this.setRotation(this.<name>, <args>);
SetRot(n, a) == [kind |-> "setRotation", name |-> n, args |-> a]
\* this.<name>.mirror = true|false;
Mirror(n, b) == [kind |-> "mirror", name |-> n, value |-> b]
\* this.<parent>.addChild(this.<child>);
AddChild(p, c) == [kind |-> "addChild", parent |-> p, child |-> c]

\* <visibility> void <name>(float a) { x = 1; }
Method(v, n) == [kind |-> "method", visibility |-> v, name |-> n]

\* The child -> parent edges of the attach statements.
AttachEdges(code) ==
    {<<code[i].child, code[i].parent>> :
        i \in {j \in DOMAIN code : code[j].kind = "addChild"}}

\* Parts reachable from n by following at most k edges child -> parent.
RECURSIVE Ancestors(_, _, _)
Ancestors(edges, n, k) ==
    IF k = 0 THEN {}
    ELSE LET up == {e[2] : e \in {f \in edges : f[1] = n}}
         IN up \cup UNION {Ancestors(edges, p, k - 1) : p \in up}

ConflictingParents(code) ==
    \E e, f \in AttachEdges(code) : e[1] = f[1] /\ e[2] # f[2]
CyclicHierarchy(code) ==
    \E e \in AttachEdges(code) :
        e[1] \in Ancestors(AttachEdges(code), e[1], Cardinality(AttachEdges(code)))

\* y.endswith(x) with y # x, on the part names of the input texts.
proper_suffixes == {<<"tailseg1", "seg1">>, <<"Tailseg1", "seg1">>}
ends_with(y, x) == x = y \/ <<y, x>> \in proper_suffixes

(***************************************************************************)
(* extract_model_parts_advanced                                             *)
(***************************************************************************)
\* re.findall of one declaration idiom: the names it captures, in text order.
RECURSIVE findall_names(_, _)
findall_names(code, idiom) ==
    IF code = <<>> THEN <<>>
    ELSE LET s == Head(code)
             hit == CASE idiom = "field" -> s.kind = "field"
                      [] idiom = "inline" -> s.kind = "new" /\ s.form = "local"
                      [] idiom = "this_new" ->
                            \/ s.kind = "new" /\ s.form = "this"
                            \/ s.kind = "castbox"
         IN (IF hit THEN <<s.name>> ELSE <<>>) \o findall_names(Tail(code), idiom)

\* append_new without the membership test.
RECURSIVE append_always(_, _)
append_always(part_declarations, matches) ==
    IF matches = <<>> THEN part_declarations
    ELSE append_always(Append(part_declarations, Head(matches)), Tail(matches))

\* "if match not in part_declarations: part_declarations.append(match)"
RECURSIVE append_new(_, _)
append_new(part_declarations, matches) ==
    IF matches = <<>> THEN part_declarations
    ELSE LET match == Head(matches)
         IN append_new(IF \E i \in DOMAIN part_declarations : part_declarations[i] = match
                       THEN part_declarations
                       ELSE Append(part_declarations, match),
                       Tail(matches))

\* part_declarations in one pass over the text, whatever the idiom.
part_declarations_in_text_order(code) ==
    LET declaring == SelectSeq(code, LAMBDA s : s.kind \in {"field", "new", "castbox"})
    IN append_new(<<>>, [i \in DOMAIN declaring |-> declaring[i].name])

\* The declaration patterns in their order: the four "ModelRenderer X;"
\* patterns capture the same fields, then "ModelRenderer X =", then
\* "this.X = new ModelRenderer".
part_declarations(code) ==
    LET fields == findall_names(code, "field")
        p1 == append_new(<<>>, fields)
        p2 == append_new(p1, fields)
        p3 == append_new(p2, fields)
        p4 == append_new(p3, fields)
        p5 == append_new(p4, findall_names(code, "inline"))
    IN append_new(p5, findall_names(code, "this_new"))

\* Statements holding the text ".addBox(<args>)".
has_addBox(s) == s.kind \in {"addBox", "castbox"}

\* Positions after i of the nearest statement satisfying the test (.*?).
next_addBox(code, i) == Min({j \in DOMAIN code : j > i /\ has_addBox(code[j])})
next_setTextureOffset(code, i) ==
    Min({j \in DOMAIN code : j > i /\ code[j].kind = "setTextureOffset"})

\* init_match with a fifth pattern, "this.X.addBox(<args>)" on its own,
\* giving the box with the default texture offset.
init_match_box_alone(code, part_name) ==
    LET m5 == {i \in DOMAIN code : code[i].kind = "addBox" /\ code[i].name = part_name}
        m1 == {i \in DOMAIN code : code[i].kind = "castbox" /\ code[i].name = part_name}
        m2 == {i \in DOMAIN code :
                 /\ code[i].kind = "new" /\ code[i].form = "this"
                 /\ code[i].name = part_name
                 /\ \E j \in DOMAIN code : j > i /\ has_addBox(code[j])}
        m3 == {i \in DOMAIN code :
                 /\ code[i].kind = "new"
                 /\ ends_with(code[i].name, part_name)
                 /\ \E j \in DOMAIN code : j > i /\ has_addBox(code[j])}
        m4 == {i \in DOMAIN code :
                 /\ code[i].kind = "addBox" /\ code[i].name = part_name
                 /\ \E j \in DOMAIN code : j > i /\ code[j].kind = "setTextureOffset"}
    IN CASE m1 # {} ->
               LET s == code[Min(m1)]
               IN [pattern |-> 1, u |-> s.u, v |-> s.v, args |-> s.args]
         [] m1 = {} /\ m2 # {} ->
               LET s == code[Min(m2)]
               IN [pattern |-> 2, u |-> s.u, v |-> s.v,
                   args |-> code[next_addBox(code, Min(m2))].args]
         [] m1 = {} /\ m2 = {} /\ m3 # {} ->
               LET s == code[Min(m3)]
               IN [pattern |-> 3, u |-> s.u, v |-> s.v,
                   args |-> code[next_addBox(code, Min(m3))].args]
         [] m1 = {} /\ m2 = {} /\ m3 = {} /\ m4 # {} ->
               LET t == code[next_setTextureOffset(code, Min(m4))]
               IN [pattern |-> 4, u |-> t.u, v |-> t.v, args |-> code[Min(m4)].args]
         [] m1 = {} /\ m2 = {} /\ m3 = {} /\ m4 = {} /\ m5 # {} ->
               [pattern |-> 1, u |-> 0, v |-> 0, args |-> code[Min(m5)].args]
         [] OTHER -> [pattern |-> 0]

\* re.search of the four init_patterns in order; the first that matches
\* gives group(1), group(2), group(3).  pattern 0: no match.
init_match(code, part_name) ==
    LET m1 == {i \in DOMAIN code : code[i].kind = "castbox" /\ code[i].name = part_name}
        m2 == {i \in DOMAIN code :
                 /\ code[i].kind = "new" /\ code[i].form = "this"
                 /\ code[i].name = part_name
                 /\ \E j \in DOMAIN code : j > i /\ has_addBox(code[j])}
        m3 == {i \in DOMAIN code :
                 /\ code[i].kind = "new"
                 /\ ends_with(code[i].name, part_name)
                 /\ \E j \in DOMAIN code : j > i /\ has_addBox(code[j])}
        m4 == {i \in DOMAIN code :
                 /\ code[i].kind = "addBox" /\ code[i].name = part_name
                 /\ \E j \in DOMAIN code : j > i /\ code[j].kind = "setTextureOffset"}
    IN CASE m1 # {} ->
               LET s == code[Min(m1)]
               IN [pattern |-> 1, u |-> s.u, v |-> s.v, args |-> s.args]
         [] m1 = {} /\ m2 # {} ->
               LET s == code[Min(m2)]
               IN [pattern |-> 2, u |-> s.u, v |-> s.v,
                   args |-> code[next_addBox(code, Min(m2))].args]
         [] m1 = {} /\ m2 = {} /\ m3 # {} ->
               LET s == code[Min(m3)]
               IN [pattern |-> 3, u |-> s.u, v |-> s.v,
                   args |-> code[next_addBox(code, Min(m3))].args]
         [] m1 = {} /\ m2 = {} /\ m3 = {} /\ m4 # {} ->
               LET t == code[next_setTextureOffset(code, Min(m4))]
               IN [pattern |-> 4, u |-> t.u, v |-> t.v, args |-> code[Min(m4)].args]
         [] OTHER -> [pattern |-> 0]

\* [float(x.strip().replace('f', '')) for x in tokens]; raises ValueError
\* when one token is no float literal.
floats_of(tokens) ==
    IF \E k \in DOMAIN tokens : tokens[k] \notin DOMAIN float_of_literal
    THEN [exc |-> "ValueError"]
    ELSE [exc |-> "none", value |-> [k \in DOMAIN tokens |-> float_of_literal[tokens[k]]]]

\* part_info before any match (coords [0, 0, 0, 1, 1, 1], in halves).
default_part_info(part_name) ==
    [name |-> part_name,
     coords |-> <<0, 0, 0, 2, 2, 2>>,
     rotation_point |-> <<0, 0, 0>>,
     initial_rotation |-> <<0, 0, 0>>,
     tex_u |-> 0, tex_v |-> 0,
     mirror |-> TRUE]

\* The "if init_match:" block: texture offset and box of one part.
\* Patterns 1-3 capture (u, v, args); pattern 4 captures (args, u, v), so
\* int(group(1)) is int() of the whole addBox argument text and group(3),
\* one number, never has six components.
apply_init_match(part_info, m) ==
    CASE m.pattern = 0 -> [exc |-> "none", part |-> part_info]
      [] m.pattern \in {1, 2, 3} ->
            IF Len(m.args) >= 6
            THEN LET f == floats_of(SubSeq(m.args, 1, 6))
                 IN IF f.exc # "none" THEN [exc |-> "ValueError"]
                    ELSE [exc |-> "none",
                          part |-> [part_info EXCEPT !.tex_u = m.u, !.tex_v = m.v,
                                                     !.coords = f.value]]
            ELSE [exc |-> "none",
                  part |-> [part_info EXCEPT !.tex_u = m.u, !.tex_v = m.v]]
      [] m.pattern = 4 ->
            IF Len(m.args) = 1 /\ m.args[1] \in DOMAIN int_of_literal
            THEN [exc |-> "none",
                  part |-> [part_info EXCEPT !.tex_u = int_of_literal[m.args[1]],
                                             !.tex_v = m.u]]
            ELSE [exc |-> "ValueError"]

\* Pivot: first "this.X.setRotationPoint(...);", every argument a float.
apply_rotation_point(code, part_info) ==
    LET ms == {i \in DOMAIN code : code[i].kind = "setRotationPoint"
                                   /\ code[i].name = part_info.name}
    IN IF ms = {} THEN [exc |-> "none", part |-> part_info]
       ELSE LET f == floats_of(code[Min(ms)].args)
            IN IF f.exc # "none" THEN [exc |-> "ValueError"]
               ELSE [exc |-> "none",
                     part |-> [part_info EXCEPT !.rotation_point = f.value]]

\* Initial rotation: first "this.setRotation(this.X, ...);".
apply_set_rotation(code, part_info) ==
    LET ms == {i \in DOMAIN code : code[i].kind = "setRotation"
                                   /\ code[i].name = part_info.name}
    IN IF ms = {} THEN [exc |-> "none", part |-> part_info]
       ELSE LET f == floats_of(code[Min(ms)].args)
            IN IF f.exc # "none" THEN [exc |-> "ValueError"]
               ELSE [exc |-> "none",
                     part |-> [part_info EXCEPT !.initial_rotation = f.value]]

\* Mirror flag: first "this.X.mirror = true|false;".
apply_mirror(code, part_info) ==
    LET ms == {i \in DOMAIN code : code[i].kind = "mirror"
                                   /\ code[i].name = part_info.name}
    IN IF ms = {} THEN part_info
       ELSE [part_info EXCEPT !.mirror = code[Min(ms)].value]

\* The body of "for part_name in part_declarations:".
extract_part(code, part_name) ==
    LET a == apply_init_match(default_part_info(part_name), init_match(code, part_name))
    IN IF a.exc # "none" THEN a
       ELSE LET b == apply_rotation_point(code, a.part)
            IN IF b.exc # "none" THEN b
               ELSE LET c == apply_set_rotation(code, b.part)
                    IN IF c.exc # "none" THEN c
                       ELSE [exc |-> "none", part |-> apply_mirror(code, c.part)]

\* extract_model_parts_advanced refusing a hierarchy with two parents for a
\* child or with a cycle.
extract_model_parts_checked(code) ==
    LET decl == part_declarations(code)
        r == [i \in DOMAIN decl |-> extract_part(code, decl[i])]
    IN IF \/ ConflictingParents(code) \/ CyclicHierarchy(code)
          \/ \E i \in DOMAIN decl : r[i].exc # "none"
       THEN [exc |-> "ValueError"]
       ELSE [exc |-> "none", parts |-> [i \in DOMAIN decl |-> r[i].part]]

extract_model_parts_advanced(code) ==
    LET decl == part_declarations(code)
        r == [i \in DOMAIN decl |-> extract_part(code, decl[i])]
    IN IF \E i \in DOMAIN decl : r[i].exc # "none"
       THEN [exc |-> "ValueError"]
       ELSE [exc |-> "none", parts |-> [i \in DOMAIN decl |-> r[i].part]]

(***************************************************************************)
(* extract_animation_methods_advanced                                       *)
(***************************************************************************)
\* The method names of the input texts that match do\w+ or set\w+.
do_or_set_names == {"doTailAnim", "setAngles", "doRender"}

\* re.finditer of "private void (do\w+|set\w+)(...) {...}": name and body of
\* each match, in text order.
extract_animation_methods_advanced(code) ==
    LET matches == SelectSeq(code, LAMBDA s : /\ s.kind = "method"
                                              /\ s.visibility = "private"
                                              /\ s.name \in do_or_set_names)
    IN [i \in DOMAIN matches |-> [name |-> matches[i].name, body |-> "x = 1;"]]

(***************************************************************************)
(* extract_model_info                                                       *)
(***************************************************************************)
\* search_texture_size falling back to the default on a value that is not
\* positive.
search_texture_size_positive(code, kind, default) ==
    LET ms == {i \in DOMAIN code : code[i].kind = kind
                                   /\ code[i].lit \in DOMAIN digits_of_literal}
    IN IF ms = {} \/ digits_of_literal[code[Min(ms)].lit] <= 0 THEN default
       ELSE digits_of_literal[code[Min(ms)].lit]

\* re.search(r'this\.textureWidth\s*=\s*(\d+)', code) and its twin for the
\* height: int() of the first match, the default without a match.
search_texture_size(code, kind, default) ==
    LET ms == {i \in DOMAIN code : code[i].kind = kind
                                   /\ code[i].lit \in DOMAIN digits_of_literal}
    IN IF ms = {} THEN default ELSE digits_of_literal[code[Min(ms)].lit]

\* re.search(r'public\s+class\s+(\w+)\s+extends\s+ModelBase', code)
search_class_name(code) ==
    LET ms == {i \in DOMAIN code : code[i].kind = "class" /\ code[i].base = "ModelBase"}
    IN IF ms = {} THEN "" ELSE code[Min(ms)].name

extract_model_info(code) ==
    LET sm == {i \in DOMAIN code : code[i].kind = "wingspeed"
                                   /\ code[i].lit \in wingspeed_literals}
        parts == extract_model_parts_advanced(code)
    IN IF sm # {} /\ code[Min(sm)].lit \notin DOMAIN float_of_literal
       THEN [exc |-> "ValueError"]
       ELSE IF parts.exc # "none" THEN [exc |-> "ValueError"]
       ELSE [exc |-> "none",
             info |-> [class_name |-> search_class_name(code),
                       texture_width |->
                           search_texture_size(code, "textureWidth", DefaultTextureWidth),
                       texture_height |->
                           search_texture_size(code, "textureHeight", DefaultTextureHeight),
                       wingspeed_init |-> IF sm = {} THEN 2
                                          ELSE float_of_literal[code[Min(sm)].lit],
                       model_parts |-> parts.parts,
                       animation_methods |-> extract_animation_methods_advanced(code)]]

(***************************************************************************)
(* Code generation                                                          *)
(***************************************************************************)
\* part_definition writing the texture offset as (v, u).
part_definition_transposed(part) ==
    [kind |-> "addOrReplaceChild",
     receiver |-> "partdefinition",
     name |-> normalize_part_name(part.name),
     texOffs |-> <<part.tex_v, part.tex_u>>,
     box |-> <<part.coords[1], part.coords[2], part.coords[3]>>,
     dims |-> <<py_int(part.coords[4]), py_int(part.coords[5]), py_int(part.coords[6])>>,
     offset |-> <<part.rotation_point[1], part.rotation_point[2], part.rotation_point[3]>>,
     rotation |-> <<part.initial_rotation[1], part.initial_rotation[2],
                    part.initial_rotation[3]>>]

\* One addOrReplaceChild statement; the receiver in the template is always
\* the root "partdefinition".
part_definition(part) ==
    [kind |-> "addOrReplaceChild",
     receiver |-> "partdefinition",
     name |-> normalize_part_name(part.name),
     texOffs |-> <<part.tex_u, part.tex_v>>,
     box |-> <<part.coords[1], part.coords[2], part.coords[3]>>,
     dims |-> <<py_int(part.coords[4]), py_int(part.coords[5]), py_int(part.coords[6])>>,
     offset |-> <<part.rotation_point[1], part.rotation_point[2], part.rotation_point[3]>>,
     rotation |-> <<part.initial_rotation[1], part.initial_rotation[2],
                    part.initial_rotation[3]>>]

\* generate_part_definitions_precise without its "if not parts" guard: the
\* empty join falls to the second placeholder.
generate_part_definitions_unguarded(parts) ==
    IF \E i \in DOMAIN parts :
          /\ Len(parts[i].coords) >= 6
          /\ \/ Len(parts[i].rotation_point) < 3
             \/ Len(parts[i].initial_rotation) < 3
    THEN [exc |-> "IndexError"]
    ELSE LET kept == SelectSeq(parts, LAMBDA p : Len(p.coords) >= 6)
         IN [exc |-> "none",
             lines |-> IF kept = <<>>
                       THEN <<[kind |-> "comment",
                               text |-> "Nenhuma definição de parte encontrada"]>>
                       ELSE [i \in DOMAIN kept |-> part_definition(kept[i])]]

\* generate_part_definitions_precise attaching each part to the part
\* defined before it.
generate_part_definitions_chained(parts) ==
    IF parts = <<>>
    THEN [exc |-> "none", lines |-> <<[kind |-> "comment", text |-> "Nenhuma parte encontrada"]>>]
    ELSE IF \E i \in DOMAIN parts :
               \/ Len(parts[i].rotation_point) < 3
               \/ Len(parts[i].initial_rotation) < 3
         THEN [exc |-> "IndexError"]
         ELSE [exc |-> "none",
               lines |-> [i \in DOMAIN parts |->
                            [part_definition(parts[i]) EXCEPT
                               !.receiver = IF i = 1 THEN "partdefinition"
                                            ELSE normalize_part_name(parts[i - 1].name)]]]

\* The lines of createBodyLayer; indexing a vector shorter than three
\* raises IndexError.
generate_part_definitions_precise(parts) ==
    IF parts = <<>>
    THEN [exc |-> "none", lines |-> <<[kind |-> "comment", text |-> "Nenhuma parte encontrada"]>>]
    ELSE IF \E i \in DOMAIN parts :
               /\ Len(parts[i].coords) >= 6
               /\ \/ Len(parts[i].rotation_point) < 3
                  \/ Len(parts[i].initial_rotation) < 3
         THEN [exc |-> "IndexError"]
         ELSE LET kept == SelectSeq(parts, LAMBDA p : Len(p.coords) >= 6)
              IN [exc |-> "none",
                  lines |-> IF kept = <<>>
                            THEN <<[kind |-> "comment",
                                    text |-> "Nenhuma definição de parte encontrada"]>>
                            ELSE [i \in DOMAIN kept |-> part_definition(kept[i])]]

generate_part_structure_comment(parts) == Len(parts)

pitchblack_indicators ==
    <<"wing1", "wing2", "wing3", "mem1", "mem2", "mem3", "lclaw1", "rclaw1", "wingclaw1">>
emperor_indicators ==
    <<"leg1seg1", "leg2seg1", "tailseg1", "tailseg2", "stinger1", "leftarmseg1",
      "rightarmseg1">>

\* all(indicator in part_names for indicator in indicators)
all_indicators(indicators, part_names) ==
    \A k \in DOMAIN indicators : \E i \in DOMAIN part_names :
        part_names[i] = indicators[k]

\* any(indicator in part_names for indicator in indicators)
any_indicator(indicators, part_names) ==
    \E k \in DOMAIN indicators : \E i \in DOMAIN part_names :
        part_names[i] = indicators[k]

detect_model_type(parts) ==
    LET part_names == [i \in DOMAIN parts |-> lower(normalize_part_name(parts[i].name))]
    IN IF any_indicator(pitchblack_indicators, part_names) THEN "PitchBlack"
       ELSE IF any_indicator(emperor_indicators, part_names) THEN "EmperorScorpion"
       ELSE "Generic"

\* Which animation body setupAnim gets.
generate_complete_animation_system_precise(parts) ==
    LET model_type == detect_model_type(parts)
    IN IF model_type = "PitchBlack" THEN "generate_pitchblack_animation"
       ELSE IF model_type = "EmperorScorpion" THEN "generate_emperorscorpion_animation"
       ELSE "generate_generic_animation"

\* generate_helper_methods_precise without its EmperorScorpion branch.
generate_helper_methods_two_way(parts) ==
    LET model_type == detect_model_type(parts)
    IN IF model_type = "PitchBlack" THEN "generate_pitchblack_methods"
       ELSE "generate_generic_methods"

\* Which helper methods follow setupAnim.
generate_helper_methods_precise(parts) ==
    LET model_type == detect_model_type(parts)
    IN IF model_type = "PitchBlack" THEN "generate_pitchblack_methods"
       ELSE IF model_type = "EmperorScorpion" THEN "generate_emperorscorpion_methods"
       ELSE "generate_generic_methods"

(***************************************************************************)
(* The animation generators.  The text of a generator is a sequence of     *)
(* blocks (setupAnim) or of methods (the helpers); each carries what its   *)
(* lines say: the comments, the locals declared, the part fields named     *)
(* (this.X or a bare field), the children fetched with root.getChild, the  *)
(* helper calls with their number of arguments.                            *)
(***************************************************************************)
\* s.startswith('leg'), s.startswith('tailseg'), 'arm' in s or 'pincer' in s,
\* 'mandible' in s or 'manpart' in s, on the lowered part names of the model.
starts_with_leg ==
    {"leg1seg1", "leg1seg2", "leg1seg3", "leg1seg4", "leg1seg5", "leg2seg1", "leg2seg2",
     "leg2seg3", "leg2seg4", "leg2seg5", "leg3seg1", "leg3seg2", "leg3seg3", "leg3seg4",
     "leg3seg5", "leg4seg1", "leg4seg2", "leg4seg3", "leg4seg4", "leg4seg5", "leg5seg1",
     "leg5seg2", "leg5seg3", "leg5seg4", "leg5seg5", "leg6seg1", "leg6seg2", "leg6seg3",
     "leg6seg4", "leg6seg5", "leg7seg1", "leg7seg2", "leg7seg3", "leg7seg4", "leg7seg5",
     "leg8seg1", "leg8seg2", "leg8seg3", "leg8seg4", "leg8seg5"}
starts_with_tailseg ==
    {"tailseg1", "tailseg2", "tailseg3", "tailseg4", "tailseg5", "tailseg6", "tailseg7",
     "tailseg8"}
contains_arm_or_pincer ==
    {"leftarmseg1", "leftarmseg2", "leftarmseg3", "leftarmseg4", "rightarmseg1",
     "rightarmseg2", "rightarmseg3", "rightarmseg4", "leftpincer", "rightpincer"}
contains_mandible_or_manpart ==
    {"leftmandible", "rightmandible", "leftmanpart2", "rightmanpart2"}

\* The component lists of the EmperorScorpion generators, on the raw names.
leg_parts(parts) == SelectSeq(parts, LAMBDA p : lower(p.name) \in starts_with_leg)
tail_parts(parts) == SelectSeq(parts, LAMBDA p : lower(p.name) \in starts_with_tailseg)
arm_parts(parts) == SelectSeq(parts, LAMBDA p : lower(p.name) \in contains_arm_or_pincer)
mandible_parts(parts) ==
    SelectSeq(parts, LAMBDA p : lower(p.name) \in contains_mandible_or_manpart)

generate_pitchblack_animation(parts) ==
    <<[block |-> "pitchblack",
       comments |-> <<"Animação específica para PitchBlack", "Animação das garras",
                      "Animação das asas", "Animação da cauda", "Rotação da cabeça">>,
       declares |-> {"clawAngle", "wingAngle", "tailSpeed", "tailAmp", "head"},
       uses |-> {"clawAngle", "wingAngle", "tailSpeed", "tailAmp", "head"},
       fields |-> {"wingspeed"},
       children |-> {"head"},
       calls |-> {<<"doLeftClawAnim", 1>>, <<"doRightClawAnim", 1>>, <<"doWingAnim", 1>>,
                  <<"doTailAnim", 2>>}]>>

generate_emperorscorpion_animation(parts) ==
    <<[block |-> "locals",
       comments |-> <<>>,
       declares |-> {"newangle", "upangle", "nextangle", "pi4"},
       uses |-> {}, fields |-> {}, children |-> {}, calls |-> {}]>>
    \o (IF leg_parts(parts) # <<>>
        THEN <<[block |-> "legs",
                comments |-> <<"Animação das pernas com movimento alternado (preservando lógica original)",
                               "Aplicar animações às 8 pernas (pernas 1-4 direita, 5-8 esquerda)">>,
                declares |-> {},
                uses |-> {"newangle", "nextangle", "upangle", "pi4"},
                fields |-> {"wingspeed",
                            "leg1Seg2", "leg1Seg3", "leg1Seg4", "leg1Seg5", "leg2Seg2",
                            "leg2Seg3", "leg2Seg4", "leg2Seg5", "leg3Seg2", "leg3Seg3",
                            "leg3Seg4", "leg3Seg5", "leg4Seg2", "leg4Seg3", "leg4Seg4",
                            "leg4Seg5", "leg5Seg2", "leg5Seg3", "leg5Seg4", "leg5Seg5",
                            "leg6Seg2", "leg6Seg3", "leg6Seg4", "leg6Seg5", "leg7Seg2",
                            "leg7Seg3", "leg7Seg4", "leg7Seg5", "leg8Seg2", "leg8Seg3",
                            "leg8Seg4", "leg8Seg5"},
                children |-> {},
                calls |-> {<<"doLeftLegAnim", 6>>, <<"doRightLegAnim", 6>>}]>>
        ELSE <<>>)
    \o (IF mandible_parts(parts) # <<>>
        THEN <<[block |-> "mandibles",
                comments |-> <<"Animação das mandíbulas (substituindo e.getAttacking() por lógica procedural)",
                               "Simulação de attacking state baseado no tempo (mais agressivo a cada 4 segundos)">>,
                declares |-> {"mandibleAngle"},
                uses |-> {"mandibleAngle"},
                fields |-> {"wingspeed", "leftManPart2", "rightManPart2"},
                children |-> {}, calls |-> {}]>>
        ELSE <<>>)
    \o (IF arm_parts(parts) # <<>>
        THEN <<[block |-> "arms",
                comments |-> <<"Animação procedural das garras e cauda (substituindo RenderInfo por lógica temporal)",
                               "Simulação de random behavior baseado em hash da entidade e tempo",
                               "Animação das garras">>,
                declares |-> {"randomValue", "randomValue2"},
                uses |-> {"newangle", "nextangle", "randomValue", "randomValue2"},
                fields |-> {"wingspeed"},
                children |-> {},
                calls |-> {<<"doLeftClawAnim", 1>>, <<"doRightClawAnim", 1>>}]>>
        ELSE <<>>)
    \o (IF tail_parts(parts) # <<>>
        THEN <<[block |-> "tail",
                comments |-> <<"Animação da cauda com cadeia cinemática completa">>,
                declares |-> {},
                uses |-> {"randomValue2", "newangle"},
                fields |-> {}, children |-> {},
                calls |-> {<<"doTailAnim", 1>>}]>>
        ELSE <<>>)

\* The fixed stub: a comment, "float angle = ...", a comment, doGenericAnim(angle).
generate_generic_animation(parts) ==
    <<[block |-> "generic",
       comments |-> <<"Animação genérica - ajuste conforme necessário",
                      "Implementar animação específica baseado no modelo">>,
       declares |-> {"angle"},
       uses |-> {"angle"},
       fields |-> {}, children |-> {},
       calls |-> {<<"doGenericAnim", 1>>}]>>

generate_pitchblack_methods(parts) ==
    <<[method |-> "doLeftClawAnim", params |-> 1,
       comments |-> <<"Métodos específicos para PitchBlack - animação de garras e asas",
                      "Animação das garras esquerdas baseada na anatomia PitchBlack",
                      "Movimento vertical das garras">>,
       declares |-> {"lclaw1", "lclaw2", "lclaw3"},
       fields |-> {},
       children |-> {"lclaw1", "lclaw2", "lclaw3"}],
      [method |-> "doRightClawAnim", params |-> 1,
       comments |-> <<"Animação das garras direitas baseada exatamente no código original",
                      "Aplicar rotações baseadas no código original (espelhado)",
                      "Movimento vertical das garras (baseado no original)",
                      "Sincronizar todas as garras com rclaw1">>,
       declares |-> {"rclaw1", "rclaw2", "rclaw3", "rclaw4", "rclaw5", "rclaw6", "rclaw7",
                     "clawY", "t2", "clawZ"},
       fields |-> {},
       children |-> {"rclaw1", "rclaw2", "rclaw3", "rclaw4", "rclaw5", "rclaw6", "rclaw7"}],
      [method |-> "doWingAnim", params |-> 1,
       comments |-> <<"Animação das asas EXATAMENTE como no código original PitchBlack",
                      "Asas direitas",
                      "ANIMAÇÃO PRINCIPAL DAS ASAS (traduzida do original)",
                      "Asa esquerda segmento 1",
                      "Asa esquerda segmento 2 (conectado dinamicamente)",
                      "Asa esquerda segmento 3 (conectado ao segmento 2)",
                      "Garras das asas esquerdas",
                      "ASAS DIREITAS (espelhamento exato do original)",
                      "Garras das asas direitas">>,
       declares |-> {"wing1", "wing2", "wing3", "mem1", "mem2", "mem3", "wingclaw1",
                     "wingclaw2", "wingclaw3", "rwing1", "rwing2", "rwing3", "rmem1",
                     "rmem2", "rmem3", "rwingclaw1", "rwingclaw2", "rwingclaw3",
                     "newangle", "clawRotation", "rclawRotation"},
       fields |-> {"wingspeed"},
       children |-> {"wing1", "wing2", "wing3", "mem1", "mem2", "mem3", "wingclaw1",
                     "wingclaw2", "wingclaw3", "rwing1", "rwing2", "rwing3", "rmem1",
                     "rmem2", "rmem3", "rwingclaw1", "rwingclaw2", "rwingclaw3"}],
      [method |-> "doTailAnim", params |-> 2,
       comments |-> <<"Animação da cauda baseada no código original",
                      "Animação em cascata dos segmentos da cauda",
                      "Segmentos bifurcados da cauda">>,
       declares |-> {"pi4", "tail1", "tail2", "tail3", "tail4", "tail5", "tail6", "tail7",
                     "tail8", "tail9", "newangle"},
       fields |-> {"wingspeed"},
       children |-> {"tail1", "tail2", "tail3", "tail4", "tail5", "tail6", "tail7",
                     "tail8", "tail9"}]>>

generate_emperorscorpion_methods(parts) ==
    (IF leg_parts(parts) # <<>>
     THEN <<[method |-> "doLeftLegAnim", params |-> 6,
             comments |-> <<"Métodos helper para EmperorScorpion - animação de pernas",
                            "Cadeia cinemática das pernas (preservando lógica trigonométrica original)">>,
             declares |-> {}, fields |-> {}, children |-> {}],
            [method |-> "doRightLegAnim", params |-> 6,
             comments |-> <<>>,
             declares |-> {}, fields |-> {}, children |-> {}]>>
     ELSE <<>>)
    \o (IF arm_parts(parts) # <<>>
        THEN <<[method |-> "doLeftClawAnim", params |-> 1,
                comments |-> <<>>,
                declares |-> {},
                fields |-> {"leftArmSeg1", "leftArmSeg2", "leftArmSeg3", "leftArmSeg4",
                            "leftPincer"},
                children |-> {}],
               [method |-> "doRightClawAnim", params |-> 1,
                comments |-> <<>>,
                declares |-> {},
                fields |-> {"rightArmSeg1", "rightArmSeg2", "rightArmSeg3", "rightArmSeg4",
                            "rightPincer"},
                children |-> {}]>>
        ELSE <<>>)
    \o (IF tail_parts(parts) # <<>>
        THEN <<[method |-> "doTailAnim", params |-> 1,
                comments |-> <<"Cadeia cinemática complexa da cauda (CRÍTICO - preservando toda a trigonometria)">>,
                declares |-> {},
                fields |-> {"tailseg1", "tailseg2", "tailseg3", "tailseg4", "tailseg5",
                            "tailseg6", "tailseg7", "tailseg8", "stinger1", "stinger2",
                            "stinger3"},
                children |-> {}]>>
        ELSE <<>>)

\* One method with an empty body: a comment and doGenericAnim(float angle).
generate_generic_methods(parts) ==
    <<[method |-> "doGenericAnim", params |-> 1,
       comments |-> <<"Métodos de animação genéricos - ajuste conforme necessário",
                      "Implementar animação específica baseado no modelo">>,
       declares |-> {}, fields |-> {}, children |-> {}]>>

\* The call the two dispatchers make: the text of the generator they name.
generated_text(generator, parts) ==
    CASE generator = "generate_pitchblack_animation" -> generate_pitchblack_animation(parts)
      [] generator = "generate_emperorscorpion_animation" ->
            generate_emperorscorpion_animation(parts)
      [] generator = "generate_generic_animation" -> generate_generic_animation(parts)
      [] generator = "generate_pitchblack_methods" -> generate_pitchblack_methods(parts)
      [] generator = "generate_emperorscorpion_methods" ->
            generate_emperorscorpion_methods(parts)
      [] generator = "generate_generic_methods" -> generate_generic_methods(parts)

(***************************************************************************)
(* Field declarations and constructor assignments                           *)
(***************************************************************************)
\* The fixed categories, in the order the two generators walk them.
body_parts == <<"head", "seg1", "seg2", "seg3", "seg4", "seg5", "seg6", "seg7", "seg8">>
tail_part_names ==
    <<"tailseg1", "tailseg2", "tailseg3", "tailseg4", "tailseg5", "tailseg6", "tailseg7",
      "tailseg8", "stinger1", "stinger2", "stinger3">>
left_arm_parts ==
    <<"leftShoulder", "leftArmSeg1", "leftArmSeg2", "leftArmSeg3", "leftArmSeg4",
      "leftPincer">>
right_arm_parts ==
    <<"rightShoulder", "rightArmSeg1", "rightArmSeg2", "rightArmSeg3", "rightArmSeg4",
      "rightPincer">>
head_parts ==
    <<"leftEye", "rightEye", "leftMandible", "rightMandible", "leftManPart2",
      "rightManPart2">>
\* leg_parts_for_num[leg_num], leg_num in range(1, 9)
leg_parts_for_num ==
    << <<"leg1Seg1", "leg1Seg2", "leg1Seg3", "leg1Seg4", "leg1Seg5">>,
      <<"leg2Seg1", "leg2Seg2", "leg2Seg3", "leg2Seg4", "leg2Seg5">>,
      <<"leg3Seg1", "leg3Seg2", "leg3Seg3", "leg3Seg4", "leg3Seg5">>,
      <<"leg4Seg1", "leg4Seg2", "leg4Seg3", "leg4Seg4", "leg4Seg5">>,
      <<"leg5Seg1", "leg5Seg2", "leg5Seg3", "leg5Seg4", "leg5Seg5">>,
      <<"leg6Seg1", "leg6Seg2", "leg6Seg3", "leg6Seg4", "leg6Seg5">>,
      <<"leg7Seg1", "leg7Seg2", "leg7Seg3", "leg7Seg4", "leg7Seg5">>,
      <<"leg8Seg1", "leg8Seg2", "leg8Seg3", "leg8Seg4", "leg8Seg5">> >>

\* found_parts walking the part list instead of the category.
found_parts_in_list_order(category, parts) ==
    LET names == [i \in DOMAIN parts |-> normalize_part_name(parts[i].name)]
    IN SelectSeq(names, LAMBDA n : \E k \in DOMAIN category : category[k] = n)

\* "for part_name in <category>: if any(normalize_part_name(p['name']) ==
\* part_name for p in parts): found.append(part_name)"
found_parts(category, parts) ==
    SelectSeq(category,
              LAMBDA part_name : \E i \in DOMAIN parts :
                                    normalize_part_name(parts[i].name) = part_name)

\* The same walk for one leg, comparing lowered names.
found_leg_parts(leg_num, parts) ==
    SelectSeq(leg_parts_for_num[leg_num],
              LAMBDA part_name : \E i \in DOMAIN parts :
                                    lower(normalize_part_name(parts[i].name))
                                      = lower(part_name))

\* "while lines and lines[-1] == '': lines.pop()"
RECURSIVE pop_blank_lines(_)
pop_blank_lines(lines) ==
    IF lines # <<>> /\ lines[Len(lines)].kind = "blank"
    THEN pop_blank_lines(SubSeq(lines, 1, Len(lines) - 1))
    ELSE lines

\* One "private final ModelPart <part>;" line per found part of a category,
\* then a blank line.
declaration_group(found) ==
    IF found = <<>> THEN <<>>
    ELSE [i \in DOMAIN found |-> [kind |-> "field", names |-> <<found[i]>>]]
         \o <<[kind |-> "blank"]>>

\* One "private final ModelPart a, b, ...;" line per leg that has parts.
RECURSIVE leg_declarations(_, _)
leg_declarations(leg_num, parts) ==
    IF leg_num > 8 THEN <<>>
    ELSE LET found == found_leg_parts(leg_num, parts)
         IN (IF found = <<>> THEN <<>> ELSE <<[kind |-> "field", names |-> found]>>)
            \o leg_declarations(leg_num + 1, parts)

generate_part_declarations_precise(parts) ==
    IF parts = <<>> THEN <<[kind |-> "comment", text |-> "Nenhuma parte encontrada"]>>
    ELSE pop_blank_lines(
             declaration_group(found_parts(body_parts, parts))
             \o declaration_group(found_parts(tail_part_names, parts))
             \o declaration_group(found_parts(left_arm_parts, parts))
             \o declaration_group(found_parts(right_arm_parts, parts))
             \o declaration_group(found_parts(head_parts, parts))
             \o leg_declarations(1, parts))

\* One 'this.<part> = root.getChild("<part>");' line per found part of a
\* category, then a blank line.
assignment_group(found) ==
    IF found = <<>> THEN <<>>
    ELSE [i \in DOMAIN found |-> [kind |-> "getChild", field |-> found[i],
                                  child |-> found[i]]]
         \o <<[kind |-> "blank"]>>

RECURSIVE leg_assignments(_, _)
leg_assignments(leg_num, parts) ==
    IF leg_num > 8 THEN <<>>
    ELSE assignment_group(found_leg_parts(leg_num, parts))
         \o leg_assignments(leg_num + 1, parts)

\* "if assignments and assignments[-1] == '': assignments.pop()"
generate_constructor_assignments_precise(parts) ==
    IF parts = <<>> THEN <<[kind |-> "comment", text |-> "Nenhuma parte encontrada"]>>
    ELSE LET assignments ==
                 assignment_group(found_parts(body_parts, parts))
                 \o assignment_group(found_parts(tail_part_names, parts))
                 \o assignment_group(found_parts(left_arm_parts, parts))
                 \o assignment_group(found_parts(right_arm_parts, parts))
                 \o assignment_group(found_parts(head_parts, parts))
                 \o leg_assignments(1, parts)
         IN IF assignments # <<>> /\ assignments[Len(assignments)].kind = "blank"
            THEN SubSeq(assignments, 1, Len(assignments) - 1)
            ELSE assignments

\* class_name.startswith('Model') on the class names of the input texts.
starts_with_Model(class_name) == class_name \in {"ModelScorpion"}

\* generate_modern_model adding, for the Generic archetype, one comment line
\* per animation method of the descriptor, holding its name.
generate_modern_model_listing(info) ==
    LET parts == info.model_parts
        defs == generate_part_definitions_precise(parts)
    IN IF defs.exc # "none" THEN [exc |-> defs.exc]
       ELSE [exc |-> "none",
             code |-> [modern_class_name |->
                           IF starts_with_Model(info.class_name)
                           THEN <<info.class_name>>
                           ELSE <<info.class_name, "Model">>,
                       structure_comment |-> generate_part_structure_comment(parts),
                       declarations |-> generate_part_declarations_precise(parts),
                       wingspeed |-> info.wingspeed_init,
                       constructor |-> generate_constructor_assignments_precise(parts),
                       createBodyLayer |-> defs.lines,
                       texture_width |-> info.texture_width,
                       texture_height |-> info.texture_height,
                       setupAnim |-> generate_complete_animation_system_precise(parts),
                       helper_methods |-> generate_helper_methods_precise(parts),
                       setupAnim_text |->
                           generated_text(generate_complete_animation_system_precise(parts),
                                          parts)
                           \o (IF detect_model_type(parts) = "Generic"
                               THEN <<[block |-> "methods",
                                       comments |->
                                           [i \in DOMAIN info.animation_methods |->
                                               info.animation_methods[i].name],
                                       declares |-> {}, uses |-> {}, fields |-> {},
                                       children |-> {}, calls |-> {}]>>
                               ELSE <<>>),
                       helper_methods_text |->
                           generated_text(generate_helper_methods_precise(parts), parts)]]

generate_modern_model(info) ==
    LET parts == info.model_parts
        defs == generate_part_definitions_precise(parts)
    IN IF defs.exc # "none" THEN [exc |-> defs.exc]
       ELSE [exc |-> "none",
             code |-> [modern_class_name |->
                           IF starts_with_Model(info.class_name)
                           THEN <<info.class_name>>
                           ELSE <<info.class_name, "Model">>,
                       structure_comment |-> generate_part_structure_comment(parts),
                       declarations |-> generate_part_declarations_precise(parts),
                       wingspeed |-> info.wingspeed_init,
                       constructor |-> generate_constructor_assignments_precise(parts),
                       createBodyLayer |-> defs.lines,
                       texture_width |-> info.texture_width,
                       texture_height |-> info.texture_height,
                       setupAnim |-> generate_complete_animation_system_precise(parts),
                       helper_methods |-> generate_helper_methods_precise(parts),
                       setupAnim_text |->
                           generated_text(generate_complete_animation_system_precise(parts),
                                          parts),
                       helper_methods_text |->
                           generated_text(generate_helper_methods_precise(parts), parts)]]

\* extract_model_info then generate_modern_model; an exception of either
\* propagates.
convert_model_code(code_input) ==
    LET e == extract_model_info(code_input)
    IN IF e.exc # "none" THEN [exc |-> e.exc]
       ELSE generate_modern_model(e.info)

(***************************************************************************)
(* Source texts of the model.                                               *)
(***************************************************************************)
Box888 == <<"-4.0f", "-4.0f", "-4.0f", "8", "8", "8">>
BoxRepair == <<"0", "0", "0", "-2", "0", "3">>
BoxHalf == <<"0", "0", "0", "2.5f", "8", "8">>
BoxShort == <<"1", "2", "3">>
BoxBad == <<"0", "0", "0", "8", "8", "1.0F">>

DeclAlphabet ==
    {Cls("Scorpion", "ModelBase"), Cls("ModelScorpion", "ModelBase"),
     Cls("Scorpion", "Entity"), Fld("Head"), Fld("body"), Fld("tail1"),
     NewLocal("tail1", 0, 0), NewThis("Head", 0, 0), Wing("1.2.3")}

ArchetypeAlphabet ==
    {Fld("Tailseg1"), Fld("wing1"), Fld("mem1"), Fld("head"), Fld("stinger1"),
     Fld("LeftArmSeg1"), Fld("tail1")}

BoxAlphabet ==
    {NewThis("head", 0, 0), NewThis("body", 16, 16), AddBox("head", Box888),
     AddBox("head", BoxRepair), AddBox("head", BoxHalf), AddBox("head", BoxShort),
     AddBox("body", BoxBad), CastBox("tail1", 8, 0, Box888)}

PivotAlphabet ==
    {Fld("head"), Fld("body"), SetRotPt("head", <<"-4.0f", "0", "2.5f">>),
     SetRotPt("head", <<"1", "2">>), SetRotPt("body", <<"1", "2", "3", "5">>),
     SetRotPt("body", <<"1.0F", "0", "0">>), SetRot("head", <<"0", "1">>),
     SetRot("head", <<"0", "0", "1.5f">>), Mirror("head", FALSE)}

TextureAlphabet ==
    {Cls("Scorpion", "ModelBase"), TexW("64"), TexW("0"), TexW("-5"), TexH("32"),
     TexH("0"), Fld("head"), Wing("1.5f")}

HierarchyAlphabet ==
    {Fld("tail1"), Fld("tail2"), Fld("tail3"), AddChild("tail1", "tail2"),
     AddChild("tail2", "tail1"), AddChild("tail3", "tail2"), AddChild("tail1", "tail3"),
     SetRotPt("tail2", <<"1", "2">>)}

OffsetAlphabet ==
    {Fld("head"), Fld("seg1"), AddBox("head", <<"5">>), AddBox("head", Box888),
     SetTex("head", 3, 4), NewThis("tailseg1", 8, 8), AddBox("tailseg1", BoxHalf)}

CategoryAlphabet ==
    {Fld("leg1Seg2"), Fld("Leg1Seg1"), Fld("LEG1SEG1"), Fld("leg2Seg1"), Fld("Head"),
     Fld("seg1"), Fld("rightEye"), Fld("tail1")}

MethodAlphabet ==
    {Fld("head"), Fld("wing1"), Method("private", "doTailAnim"),
     Method("private", "setAngles"), Method("private", "animate"),
     Method("public", "doRender")}

Alphabets ==
    {DeclAlphabet, ArchetypeAlphabet, BoxAlphabet, PivotAlphabet, TextureAlphabet,
     HierarchyAlphabet, OffsetAlphabet, CategoryAlphabet, MethodAlphabet}

\* The texts sent by calls that run at the same time: the empty text, three
\* that convert, one whose pivot literal is no float and one whose pivot
\* has two components.
ConcurrentTexts ==
    {<<>>,
     <<Fld("head")>>,
     <<NewThis("head", 0, 0), AddBox("head", Box888)>>,
     <<Fld("wing1"), Fld("tail1")>>,
     <<Fld("body"), SetRotPt("body", <<"1.0F", "0", "0">>)>>,
     <<Fld("head"), SetRotPt("head", <<"1", "2">>)>>}

\* The calls in flight at once.
CallIds == 1..MaxCalls

\* Every text of at most MaxStmts statements over one alphabet.
Texts == UNION {UNION {[1..n -> A] : n \in 0..MaxStmts} : A \in Alphabets}

(***************************************************************************)
(* The /convert handler as a state machine.                                 *)
(***************************************************************************)
\* The first six are the locals of one call of the handler; calls holds the
\* locals of each of several calls running at once; normalized holds a name
\* given to normalize_part_name followed by the results of applying it.
VARIABLES pc, code_input, model_info, converted_code, raised, response, calls,
          normalized

vars == <<pc, code_input, model_info, converted_code, raised, response, calls,
          normalized>>

None == [none |-> TRUE]

\* The locals of a call that has not started.
IdleCall ==
    [pc |-> "idle", code_input |-> <<>>, model_info |-> None, converted_code |-> None,
     raised |-> "none", response |-> None]

Init ==
    /\ pc = "idle"
    /\ code_input = <<>>
    /\ model_info = None
    /\ converted_code = None
    /\ raised = "none"
    /\ response = None
    /\ calls = [id \in CallIds |-> IdleCall]
    /\ normalized = <<>>

\* A POST arrives; code_input is the stripped request text.
Request ==
    /\ pc = "idle"
    /\ \E text \in Texts : code_input' = text
    /\ pc' = "received"
    /\ UNCHANGED <<model_info, converted_code, raised, response, calls, normalized>>

\* "if not code_input: return jsonify({'error': ...}), 400"
RejectEmpty ==
    /\ pc = "received"
    /\ code_input = <<>>
    /\ response' = [status |-> 400, error |-> "Código de entrada não pode estar vazio"]
    /\ pc' = "done"
    /\ UNCHANGED <<code_input, model_info, converted_code, raised, calls, normalized>>

\* convert_model_code, first half: model_info = extract_model_info(code_input)
ExtractModelInfo ==
    /\ pc = "received"
    /\ code_input # <<>>
    /\ LET e == extract_model_info(code_input)
       IN IF e.exc # "none"
          THEN /\ raised' = e.exc
               /\ pc' = "except"
               /\ UNCHANGED model_info
          ELSE /\ model_info' = e.info
               /\ pc' = "extracted"
               /\ UNCHANGED raised
    /\ UNCHANGED <<code_input, converted_code, response, calls, normalized>>

\* GenerateModernModel consuming the part list it emits (parts.pop(0)).
GenerateModernModelConsuming ==
    /\ pc = "extracted"
    /\ LET g == generate_modern_model(model_info)
       IN IF g.exc # "none"
          THEN /\ raised' = g.exc
               /\ pc' = "except"
               /\ UNCHANGED <<converted_code, model_info>>
          ELSE /\ converted_code' = g.code
               /\ pc' = "generated"
               /\ model_info' =
                     [model_info EXCEPT !.model_parts =
                         IF @ = <<>> THEN @ ELSE Tail(@)]
               /\ UNCHANGED raised
    /\ UNCHANGED <<code_input, response, calls, normalized>>

\* convert_model_code, second half: generate_modern_model(model_info)
GenerateModernModel ==
    /\ pc = "extracted"
    /\ LET g == generate_modern_model(model_info)
       IN IF g.exc # "none"
          THEN /\ raised' = g.exc
               /\ pc' = "except"
               /\ UNCHANGED converted_code
          ELSE /\ converted_code' = g.code
               /\ pc' = "generated"
               /\ UNCHANGED raised
    /\ UNCHANGED <<code_input, model_info, response, calls, normalized>>

\* return jsonify({'converted_code': converted_code, 'success': True})
ReturnConverted ==
    /\ pc = "generated"
    /\ response' = [status |-> 200, converted_code |-> converted_code, success |-> TRUE]
    /\ pc' = "done"
    /\ UNCHANGED <<code_input, model_info, converted_code, raised, calls, normalized>>

\* ExceptValueError answering as the generic handler does.
ExceptValueErrorGeneric ==
    /\ pc = "except"
    /\ raised = "ValueError"
    /\ response' = [status |-> 500, error |-> <<"Erro interno na conversão: ", "str(e)">>]
    /\ pc' = "done"
    /\ UNCHANGED <<code_input, model_info, converted_code, raised, calls, normalized>>

\* except ValueError as e: return jsonify({'error': str(e)}), 400
ExceptValueError ==
    /\ pc = "except"
    /\ raised = "ValueError"
    /\ response' = [status |-> 400, error |-> <<"str(e)">>]
    /\ pc' = "done"
    /\ UNCHANGED <<code_input, model_info, converted_code, raised, calls, normalized>>

\* except Exception as e: return jsonify({'error': 'Erro interno ...'}), 500
ExceptException ==
    /\ pc = "except"
    /\ raised # "ValueError"
    /\ response' = [status |-> 500, error |-> <<"Erro interno na conversão: ", "str(e)">>]
    /\ pc' = "done"
    /\ UNCHANGED <<code_input, model_info, converted_code, raised, calls, normalized>>

Next ==
    \/ Request
    \/ RejectEmpty
    \/ ExtractModelInfo
    \/ GenerateModernModel
    \/ ReturnConverted
    \/ ExceptValueError
    \/ ExceptException

Spec == Init /\ [][Next]_vars

(***************************************************************************)
(* The emitter called a second time on the same descriptor, and the whole  *)
(* conversion called a second time on the same text.                       *)
(***************************************************************************)
\* generate_modern_model(model_info) once more, after the first call returned.
EmitAgain ==
    /\ pc = "generated"
    /\ LET g == generate_modern_model(model_info)
       IN IF g.exc # "none"
          THEN /\ raised' = g.exc
               /\ pc' = "except"
               /\ UNCHANGED converted_code
          ELSE /\ converted_code' = g.code
               /\ pc' = "generated_twice"
               /\ UNCHANGED raised
    /\ UNCHANGED <<code_input, model_info, response, calls, normalized>>

\* convert_model_code(code_input) once more.
ConvertAgain ==
    /\ pc = "generated_twice"
    /\ LET e == extract_model_info(code_input)
       IN IF e.exc # "none"
          THEN /\ raised' = e.exc
               /\ pc' = "except"
               /\ UNCHANGED converted_code
          ELSE LET g == generate_modern_model(e.info)
               IN IF g.exc # "none"
                  THEN /\ raised' = g.exc
                       /\ pc' = "except"
                       /\ UNCHANGED converted_code
                  ELSE /\ converted_code' = g.code
                       /\ pc' = "converted_twice"
                       /\ UNCHANGED raised
    /\ UNCHANGED <<code_input, model_info, response, calls, normalized>>

NextEmitTwice ==
    \/ Request
    \/ RejectEmpty
    \/ ExtractModelInfo
    \/ GenerateModernModel
    \/ EmitAgain
    \/ ConvertAgain
    \/ ReturnConverted
    \/ ExceptValueError
    \/ ExceptException

SpecEmitTwice == Init /\ [][NextEmitTwice]_vars

(***************************************************************************)
(* Several calls of the handler in flight at once.  Each step of a call    *)
(* reads and writes the locals of that call only: the module keeps no      *)
(* global besides the blueprint, and normalize_part_name builds its table  *)
(* anew in every call.                                                     *)
(***************************************************************************)
SingleCallIdle ==
    UNCHANGED <<pc, code_input, model_info, converted_code, raised, response, normalized>>

CallRequest(id) ==
    /\ calls[id].pc = "idle"
    /\ \E text \in ConcurrentTexts :
          calls' = [calls EXCEPT ![id].code_input = text, ![id].pc = "received"]
    /\ SingleCallIdle

CallRejectEmpty(id) ==
    /\ calls[id].pc = "received"
    /\ calls[id].code_input = <<>>
    /\ calls' = [calls EXCEPT
                   ![id].response = [status |-> 400,
                                     error |-> "Código de entrada não pode estar vazio"],
                   ![id].pc = "done"]
    /\ SingleCallIdle

\* CallExtractModelInfo with the part list kept in a module-level list that
\* an earlier call has already filled.
CallExtractModelInfoShared(id) ==
    /\ calls[id].pc = "received"
    /\ calls[id].code_input # <<>>
    /\ LET e == extract_model_info(calls[id].code_input)
           filled == {j \in CallIds \ {id} : calls[j].model_info # None}
           shared == IF filled = {} THEN <<>>
                     ELSE calls[Min(filled)].model_info.model_parts
       IN calls' = IF e.exc # "none"
                   THEN [calls EXCEPT ![id].raised = e.exc, ![id].pc = "except"]
                   ELSE [calls EXCEPT
                           ![id].model_info =
                               [e.info EXCEPT !.model_parts = shared \o @],
                           ![id].pc = "extracted"]
    /\ SingleCallIdle

CallExtractModelInfo(id) ==
    /\ calls[id].pc = "received"
    /\ calls[id].code_input # <<>>
    /\ LET e == extract_model_info(calls[id].code_input)
       IN calls' = IF e.exc # "none"
                   THEN [calls EXCEPT ![id].raised = e.exc, ![id].pc = "except"]
                   ELSE [calls EXCEPT ![id].model_info = e.info, ![id].pc = "extracted"]
    /\ SingleCallIdle

CallGenerateModernModel(id) ==
    /\ calls[id].pc = "extracted"
    /\ LET g == generate_modern_model(calls[id].model_info)
       IN calls' = IF g.exc # "none"
                   THEN [calls EXCEPT ![id].raised = g.exc, ![id].pc = "except"]
                   ELSE [calls EXCEPT ![id].converted_code = g.code,
                                      ![id].pc = "generated"]
    /\ SingleCallIdle

CallReturnConverted(id) ==
    /\ calls[id].pc = "generated"
    /\ calls' = [calls EXCEPT
                   ![id].response = [status |-> 200,
                                     converted_code |-> calls[id].converted_code,
                                     success |-> TRUE],
                   ![id].pc = "done"]
    /\ SingleCallIdle

CallExceptValueError(id) ==
    /\ calls[id].pc = "except"
    /\ calls[id].raised = "ValueError"
    /\ calls' = [calls EXCEPT ![id].response = [status |-> 400, error |-> <<"str(e)">>],
                              ![id].pc = "done"]
    /\ SingleCallIdle

CallExceptException(id) ==
    /\ calls[id].pc = "except"
    /\ calls[id].raised # "ValueError"
    /\ calls' = [calls EXCEPT
                   ![id].response = [status |-> 500,
                                     error |-> <<"Erro interno na conversão: ", "str(e)">>],
                   ![id].pc = "done"]
    /\ SingleCallIdle

NextConcurrent ==
    \/ \E id \in CallIds : CallRequest(id)
    \/ \E id \in CallIds : CallRejectEmpty(id)
    \/ \E id \in CallIds : CallExtractModelInfo(id)
    \/ \E id \in CallIds : CallGenerateModernModel(id)
    \/ \E id \in CallIds : CallReturnConverted(id)
    \/ \E id \in CallIds : CallExceptValueError(id)
    \/ \E id \in CallIds : CallExceptException(id)

SpecConcurrent == Init /\ [][NextConcurrent]_vars

\* The answer of the handler to one text, the call running alone.
convert(text) ==
    IF text = <<>>
    THEN [status |-> 400, error |-> "Código de entrada não pode estar vazio"]
    ELSE LET c == convert_model_code(text)
         IN CASE c.exc = "none" ->
                    [status |-> 200, converted_code |-> c.code, success |-> TRUE]
              [] c.exc = "ValueError" -> [status |-> 400, error |-> <<"str(e)">>]
              [] OTHER ->
                    [status |-> 500,
                     error |-> <<"Erro interno na conversão: ", "str(e)">>]

(***************************************************************************)
(* normalize_part_name on its own: a name is normalized, and the result is *)
(* normalized again.                                                        *)
(***************************************************************************)
\* Names outside the mapping table and outside its targets.
UnmappedNames ==
    {"wing1", "tail1", "root", "HEAD", "leg1seg1", "LEG1SEG1", "LeftEYE", "seg9",
     "Leg9Seg1", "tailSeg1", "bodY"}

\* The names given to normalize_part_name: every key of the table, every
\* target of the table and the names above.
OldNames ==
    DOMAIN name_mappings
    \cup {name_mappings[k] : k \in DOMAIN name_mappings}
    \cup UnmappedNames

\* normalize_part_name(old_name)
NormalizeName ==
    /\ normalized = <<>>
    /\ \E old_name \in OldNames :
          normalized' = <<old_name, normalize_part_name(old_name)>>
    /\ UNCHANGED <<pc, code_input, model_info, converted_code, raised, response, calls>>

\* normalize_part_name of the name the last call returned.
NormalizeAgain ==
    /\ Len(normalized) \in 2..MaxNormalize
    /\ normalized' = Append(normalized, normalize_part_name(normalized[Len(normalized)]))
    /\ UNCHANGED <<pc, code_input, model_info, converted_code, raised, response, calls>>

NextNormalize ==
    \/ NormalizeName
    \/ NormalizeAgain

SpecNormalize == Init /\ [][NextNormalize]_vars

(***************************************************************************)
(* Properties of the converter.                                             *)
(***************************************************************************)
Done == pc = "done"
Answered == pc = "done" /\ code_input # <<>>
Converted == pc = "done" /\ response.status = 200

\* The addOrReplaceChild statements of the returned createBodyLayer.
EmittedDefinitions ==
    SelectSeq(response.converted_code.createBodyLayer,
              LAMBDA l : l.kind = "addOrReplaceChild")

\* The part names the text declares, in any idiom.
DeclaredNames(code) ==
    {code[i].name : i \in {j \in DOMAIN code : code[j].kind \in {"field", "new", "castbox"}}}

Abs(x) == IF x < 0 THEN -x ELSE x
Max(x, y) == IF x >= y THEN x ELSE y

\* C1: a returned text has exactly one addOrReplaceChild statement per
\* distinct declared part name: as many statements as declared names, and
\* the statements named normalize(n) are as many as the declared names that
\* normalize to it (none dropped, none emitted twice).
C1_OneDefinitionPerPart ==
    Converted =>
        LET defs == EmittedDefinitions
            names == DeclaredNames(code_input)
        IN /\ Len(defs) = Cardinality(names)
           /\ \A n \in names :
                 Cardinality({i \in DOMAIN defs : defs[i].name = normalize_part_name(n)})
                   = Cardinality({m \in names :
                                    normalize_part_name(m) = normalize_part_name(n)})

\* Two distinct parts converted, one of them declared by two statements.
C1_Witness ==
    /\ Converted
    /\ Cardinality(DeclaredNames(code_input)) >= 2
    /\ Len(EmittedDefinitions) >= 2
    /\ \E i, j \in DOMAIN code_input :
          /\ i < j
          /\ code_input[i].kind \in {"field", "new", "castbox"}
          /\ code_input[j].kind \in {"field", "new", "castbox"}
          /\ code_input[i].name = code_input[j].name

NoClassDeclaration(code) ==
    ~ \E i \in DOMAIN code : code[i].kind = "class" /\ code[i].base = "ModelBase"
NoParts(code) == DeclaredNames(code) = {}

\* The first wingspeed assignment the extractor reads is no float literal.
MalformedWingspeed(code) ==
    \E i \in DOMAIN code :
        /\ code[i].kind = "wingspeed" /\ code[i].lit \in wingspeed_literals
        /\ code[i].lit \notin DOMAIN float_of_literal
        /\ \A j \in DOMAIN code :
              (j < i) => ~ (code[j].kind = "wingspeed" /\ code[j].lit \in wingspeed_literals)

\* C2 as stated: without a class declaration, or without parts, the
\* conversion ends in an error and returns no converted code.
C2_AbortsWithoutClassOrParts ==
    (Answered /\ (NoClassDeclaration(code_input) \/ NoParts(code_input)))
        => response.status # 200

\* C2 amended: neither condition aborts.  Without parts the conversion
\* returns a text whose createBodyLayer is the placeholder comment and whose
\* structure comment counts 0 parts (it fails only on a malformed wingspeed
\* literal); without a class declaration a returned text names its class
\* "" + "Model".
C2_NoClassOrPartsStillConverts ==
    Answered =>
        /\ NoParts(code_input) =>
              IF MalformedWingspeed(code_input)
              THEN response.status = 400
              ELSE /\ response.status = 200
                   /\ response.converted_code.createBodyLayer =
                        <<[kind |-> "comment", text |-> "Nenhuma parte encontrada"]>>
                   /\ response.converted_code.structure_comment = 0
        /\ (NoClassDeclaration(code_input) /\ response.status = 200) =>
              response.converted_code.modern_class_name = <<"", "Model">>

\* A text with neither class declaration nor parts is converted.
C2_Witness ==
    /\ Converted
    /\ NoClassDeclaration(code_input)
    /\ NoParts(code_input)
    /\ response.converted_code.modern_class_name = <<"", "Model">>

\* C3 as stated: every emitted box dimension is max(1, abs(v)) of the
\* extracted value v (in whole units), so (-2, 0, 3) is emitted as (2, 1, 3).
C3_DimensionsRepaired ==
    Converted =>
        /\ \A i \in DOMAIN EmittedDefinitions : \A k \in 1..3 :
              EmittedDefinitions[i].dims[k]
                = Max(1, Abs(model_info.model_parts[i].coords[3 + k]) \div 2)
        /\ code_input = <<NewThis("head", 0, 0), AddBox("head", BoxRepair)>>
              => EmittedDefinitions[1].dims = <<2, 1, 3>>

\* C3 amended: every emitted box dimension is the extracted value truncated
\* toward zero, sign kept and zero kept: (-2, 0, 3) is emitted as
\* (-2, 0, 3) and 2.5 as 2.
C3_DimensionsTruncated ==
    Converted =>
        /\ \A i \in DOMAIN EmittedDefinitions : \A k \in 1..3 :
              LET d == EmittedDefinitions[i].dims[k]
                  v == model_info.model_parts[i].coords[3 + k]
              IN IF v >= 0 THEN 2 * d <= v /\ v < 2 * d + 2
                 ELSE 2 * d >= v /\ v > 2 * d - 2
        /\ code_input = <<NewThis("head", 0, 0), AddBox("head", BoxRepair)>>
              => EmittedDefinitions[1].dims = <<-2, 0, 3>>
        /\ code_input = <<NewThis("head", 0, 0), AddBox("head", BoxHalf)>>
              => EmittedDefinitions[1].dims = <<2, 8, 8>>

\* The part declared with dimensions (-2, 0, 3) has been emitted.
C3_Witness ==
    /\ Converted
    /\ code_input = <<NewThis("head", 0, 0), AddBox("head", BoxRepair)>>
    /\ model_info.model_parts[1].coords = <<0, 0, 0, -4, 0, 6>>
    /\ Len(EmittedDefinitions) = 1

\* Positions of the size assignments whose literal starts with a digit.
SizeAssignments(code, kind) ==
    {i \in DOMAIN code : code[i].kind = kind /\ code[i].lit \in DOMAIN digits_of_literal}

\* C4 as stated: the atlas width and height given to LayerDefinition.create
\* are positive, 256 and 128 standing in for a missing or non-positive value.
C4_AtlasSizePositive ==
    Converted =>
        /\ response.converted_code.texture_width > 0
        /\ response.converted_code.texture_height > 0

\* C4 amended: the atlas width (height) is the number of the first
\* textureWidth (textureHeight) assignment whose value starts with a digit,
\* zero included, and 256 (128) when there is none (missing, or negative).
C4_AtlasSizeFirstDigits ==
    Converted =>
        /\ \A i \in SizeAssignments(code_input, "textureWidth") :
              (\A j \in SizeAssignments(code_input, "textureWidth") : i <= j)
                 => response.converted_code.texture_width
                      = digits_of_literal[code_input[i].lit]
        /\ SizeAssignments(code_input, "textureWidth") = {}
              => response.converted_code.texture_width = 256
        /\ \A i \in SizeAssignments(code_input, "textureHeight") :
              (\A j \in SizeAssignments(code_input, "textureHeight") : i <= j)
                 => response.converted_code.texture_height
                      = digits_of_literal[code_input[i].lit]
        /\ SizeAssignments(code_input, "textureHeight") = {}
              => response.converted_code.texture_height = 128

\* A text assigning width 0 is converted with atlas width 0; its height,
\* never assigned, is 128.
C4_Witness ==
    /\ Converted
    /\ \E i \in DOMAIN code_input :
          code_input[i].kind = "textureWidth" /\ code_input[i].lit = "0"
    /\ response.converted_code.texture_width = 0
    /\ response.converted_code.texture_height = 128

\* C5 as stated: for every attach statement whose child and parent are
\* declared parts, the child's definition is attached under the parent's
\* sub-definition (not under the root).
C5_ChildAttachedUnderParent ==
    Converted =>
        \A e \in AttachEdges(code_input) :
            (e[1] \in DeclaredNames(code_input) /\ e[2] \in DeclaredNames(code_input))
              => \E i \in DOMAIN EmittedDefinitions :
                    /\ EmittedDefinitions[i].name = normalize_part_name(e[1])
                    /\ EmittedDefinitions[i].receiver = normalize_part_name(e[2])

\* C5 amended: the output is flat.  Every line of createBodyLayer is a part
\* definition attached to the root partdefinition (or the placeholder
\* comment), there is no parent lookup, and the child of an attach statement
\* is defined once, under the root, like any other part.
C5_AllPartsAttachedToRoot ==
    Converted =>
        /\ \A i \in DOMAIN response.converted_code.createBodyLayer :
              LET l == response.converted_code.createBodyLayer[i]
              IN \/ l.kind = "comment"
                 \/ l.kind = "addOrReplaceChild" /\ l.receiver = "partdefinition"
        /\ \A e \in AttachEdges(code_input) :
              e[1] \in DeclaredNames(code_input) =>
                 Cardinality({i \in DOMAIN EmittedDefinitions :
                                 /\ EmittedDefinitions[i].name = normalize_part_name(e[1])
                                 /\ EmittedDefinitions[i].receiver = "partdefinition"}) = 1

\* tail1 and tail2 declared, tail2 attached to tail1: two root definitions.
C5_Witness ==
    /\ Converted
    /\ code_input = <<Fld("tail1"), Fld("tail2"), AddChild("tail1", "tail2")>>
    /\ Len(EmittedDefinitions) = 2
    /\ EmittedDefinitions[2].name = "tail2"
    /\ EmittedDefinitions[2].receiver = "partdefinition"

\* C6 as stated: a text whose attach statements give a child two parents,
\* or form a cycle, is rejected with an error and no converted code.
C6_ConflictOrCycleRejected ==
    (/\ Answered
     /\ DeclaredNames(code_input) # {}
     /\ ConflictingParents(code_input) \/ CyclicHierarchy(code_input))
        => response.status # 200

\* The text without its attach statements.
WithoutAttach(code) == SelectSeq(code, LAMBDA s : s.kind # "addChild")

\* C6 amended: attach statements are never read.  A text with conflicting
\* parents or a cycle is answered as the same text without its attach
\* statements is converted: the same converted code, or the same exception.
C6_ConflictOrCycleIgnored ==
    (Answered /\ (ConflictingParents(code_input) \/ CyclicHierarchy(code_input))) =>
        LET r == convert_model_code(WithoutAttach(code_input))
        IN /\ raised = r.exc
           /\ (r.exc = "none") = (response.status = 200)
           /\ r.exc = "none" => response.converted_code = r.code

\* A declared part with two parents, and a converted text all the same.
C6_Witness ==
    /\ Converted
    /\ ConflictingParents(code_input)
    /\ DeclaredNames(code_input) # {}

GenericError == <<"Erro interno na conversão: ", "str(e)">>

\* C7 as stated: every exception raised inside the conversion is reported
\* as the generic internal-error message.
C7_EveryExceptionGeneric ==
    (Answered /\ raised # "none") => response.error = GenericError

\* C7 amended: no exception escapes and the answer is either converted code
\* or an error; a ValueError is reported with its own message and status
\* 400, every other exception as the generic internal-error message with
\* status 500.
C7_ValueErrorOwnMessageElseGeneric ==
    Answered =>
        /\ DOMAIN response \in {{"status", "converted_code", "success"}, {"status", "error"}}
        /\ raised = "none" => /\ response.status = 200
                              /\ response.converted_code = converted_code
        /\ raised = "ValueError" => /\ response.status = 400
                                    /\ response.error = <<"str(e)">>
        /\ raised \notin {"none", "ValueError"} => /\ response.status = 500
                                                   /\ response.error = GenericError

\* A malformed numeric literal has raised ValueError and was answered.
C7_Witness ==
    /\ Answered
    /\ raised = "ValueError"
    /\ response.status = 400
    /\ \E i \in DOMAIN code_input :
          /\ code_input[i].kind \in {"addBox", "setRotationPoint", "setRotation"}
          /\ \E k \in DOMAIN code_input[i].args :
                code_input[i].args[k] \notin DOMAIN float_of_literal

\* Statement i is a call of a declared part with a token that is no number.
MalformedCall(code, i, kind) ==
    /\ code[i].kind = kind
    /\ code[i].name \in DeclaredNames(code)
    /\ \E k \in DOMAIN code[i].args : code[i].args[k] \notin DOMAIN float_of_literal

MalformedDeclaration(code) ==
    \E i \in DOMAIN code : \E kind \in {"addBox", "setRotationPoint", "setRotation"} :
        MalformedCall(code, i, kind)

\* C8: a malformed numeric argument of a declared part (in addBox,
\* setRotationPoint or setRotation) is not fatal: the conversion succeeds
\* and that property of the part keeps its default.
C8_MalformedDeclarationNonFatal ==
    (Answered /\ MalformedDeclaration(code_input)) =>
        /\ response.status = 200
        /\ \A i \in DOMAIN model_info.model_parts :
              LET p == model_info.model_parts[i]
                  bad(kind) == \E j \in DOMAIN code_input :
                                  MalformedCall(code_input, j, kind)
                                  /\ code_input[j].name = p.name
              IN /\ bad("addBox") => p.coords = <<0, 0, 0, 2, 2, 2>>
                 /\ bad("setRotationPoint") => p.rotation_point = <<0, 0, 0>>
                 /\ bad("setRotation") => p.initial_rotation = <<0, 0, 0>>

\* C9: after extraction every pivot and initial rotation has three
\* components and every box six, and emission never indexes a missing one.
C9_VectorsPadded ==
    /\ pc = "extracted" =>
          \A i \in DOMAIN model_info.model_parts :
              /\ Len(model_info.model_parts[i].rotation_point) = 3
              /\ Len(model_info.model_parts[i].initial_rotation) = 3
              /\ Len(model_info.model_parts[i].coords) = 6
    /\ raised # "IndexError"

\* lower(normalize(name)) of the extracted parts.
PartNameSet ==
    {lower(normalize_part_name(model_info.model_parts[i].name)) :
        i \in DOMAIN model_info.model_parts}
Range(f) == {f[k] : k \in DOMAIN f}

\* C10 as stated: an archetype is chosen only when its whole signature set
\* is among the part names, and Generic when no signature is contained.
C10_WholeSignatureRequired ==
    Converted =>
        /\ response.converted_code.setupAnim = "generate_pitchblack_animation"
              => Range(pitchblack_indicators) \subseteq PartNameSet
        /\ response.converted_code.setupAnim = "generate_emperorscorpion_animation"
              => Range(emperor_indicators) \subseteq PartNameSet
        /\ (/\ ~ (Range(pitchblack_indicators) \subseteq PartNameSet)
            /\ ~ (Range(emperor_indicators) \subseteq PartNameSet))
              => response.converted_code.setupAnim = "generate_generic_animation"

\* C10 amended: an archetype is chosen as soon as one of its indicator
\* names is among the lower-cased normalized part names: PitchBlack if one
\* of its indicators is, else EmperorScorpion if one of its indicators is,
\* else Generic.
C10_AnyIndicatorSelects ==
    Converted =>
        LET pitch == Range(pitchblack_indicators) \cap PartNameSet # {}
            emperor == Range(emperor_indicators) \cap PartNameSet # {}
            anim == response.converted_code.setupAnim
        IN /\ pitch => anim = "generate_pitchblack_animation"
           /\ (~ pitch /\ emperor) => anim = "generate_emperorscorpion_animation"
           /\ (~ pitch /\ ~ emperor) => anim = "generate_generic_animation"

\* One indicator of seven is enough for EmperorScorpion.
C10_Witness ==
    /\ Converted
    /\ PartNameSet = {"tailseg1", "head"}
    /\ response.converted_code.setupAnim = "generate_emperorscorpion_animation"


(***************************************************************************)
(* The Generic fallback.                                                    *)
(***************************************************************************)
\* The signature names of the two recognised archetypes.
SignatureNames == Range(pitchblack_indicators) \cup Range(emperor_indicators)

\* The extracted part list is not empty and none of its names is a signature name.
UnrecognisedParts ==
    /\ model_info # None
    /\ model_info.model_parts # <<>>
    /\ \A i \in DOMAIN model_info.model_parts :
          lower(normalize_part_name(model_info.model_parts[i].name)) \notin SignatureNames

\* C11: for every non-empty part set with no recognised signature name the
\* generation completes without raising, and the answer carries the Generic
\* animation: the non-empty placeholder stub that calls doGenericAnim.
C11_GenericFallbackCompletes ==
    UnrecognisedParts =>
        /\ raised = "none"
        /\ pc = "done" =>
              /\ response.status = 200
              /\ response.converted_code.setupAnim = "generate_generic_animation"
              /\ response.converted_code.setupAnim_text # <<>>
              /\ \E k \in DOMAIN response.converted_code.setupAnim_text :
                    <<"doGenericAnim", 1>> \in response.converted_code.setupAnim_text[k].calls

(***************************************************************************)
(* The part-definition statement of one part.                               *)
(***************************************************************************)
\* The text has a "this.setRotation(this.X, ...)" statement for the part.
HasSetRotation(code, part_name) ==
    \E i \in DOMAIN code : code[i].kind = "setRotation" /\ code[i].name = part_name

\* The single part head of the scenario: texture offset (0, 0) and box
\* (-4, -4, -4, 8, 8, 8), no pivot and no rotation statement.
SingleHead == <<NewThis("head", 0, 0), AddBox("head", Box888)>>

\* C12 as stated: every part-definition statement carries the texture
\* offset, the box offset, the box dimensions and the pivot of its part
\* unchanged, and rotation (0, 0, 0) for a part with no rotation statement;
\* the single part head yields child "head" with texOffs(0, 0), box offset
\* (-4.0, -4.0, -4.0), dimensions 8, 8, 8 and an all-zero pose.
C12_ReproducedUnchanged ==
    Converted =>
        /\ \A i \in DOMAIN EmittedDefinitions :
              LET d == EmittedDefinitions[i]
                  p == model_info.model_parts[i]
              IN /\ d.texOffs = <<p.tex_u, p.tex_v>>
                 /\ d.box = SubSeq(p.coords, 1, 3)
                 /\ \A k \in 1..3 : 2 * d.dims[k] = p.coords[3 + k]
                 /\ d.offset = SubSeq(p.rotation_point, 1, 3)
                 /\ ~HasSetRotation(code_input, p.name) => d.rotation = <<0, 0, 0>>
        /\ code_input = SingleHead
              => EmittedDefinitions =
                    <<[kind |-> "addOrReplaceChild", receiver |-> "partdefinition",
                       name |-> "head", texOffs |-> <<0, 0>>, box |-> <<-8, -8, -8>>,
                       dims |-> <<8, 8, 8>>, offset |-> <<0, 0, 0>>,
                       rotation |-> <<0, 0, 0>>]>>

\* C12 amended: texture offset, box offset and pivot are carried unchanged
\* and a part with no rotation statement gets rotation (0, 0, 0), but each
\* box dimension is carried truncated toward zero to a whole number, so it
\* is unchanged only when it is whole; the single part head yields the
\* statement of the scenario.
C12_ReproducedWithWholeDimensions ==
    Converted =>
        /\ \A i \in DOMAIN EmittedDefinitions :
              LET d == EmittedDefinitions[i]
                  p == model_info.model_parts[i]
              IN /\ d.texOffs = <<p.tex_u, p.tex_v>>
                 /\ d.box = SubSeq(p.coords, 1, 3)
                 /\ \A k \in 1..3 :
                       LET v == p.coords[3 + k]
                       IN /\ Abs(2 * d.dims[k]) <= Abs(v)
                          /\ Abs(v) < Abs(2 * d.dims[k]) + 2
                          /\ v * d.dims[k] >= 0
                 /\ d.offset = SubSeq(p.rotation_point, 1, 3)
                 /\ ~HasSetRotation(code_input, p.name) => d.rotation = <<0, 0, 0>>
        /\ code_input = SingleHead
              => EmittedDefinitions =
                    <<[kind |-> "addOrReplaceChild", receiver |-> "partdefinition",
                       name |-> "head", texOffs |-> <<0, 0>>, box |-> <<-8, -8, -8>>,
                       dims |-> <<8, 8, 8>>, offset |-> <<0, 0, 0>>,
                       rotation |-> <<0, 0, 0>>]>>

\* The single part head has been converted.
C12_Witness ==
    /\ Converted
    /\ code_input = SingleHead
    /\ Len(EmittedDefinitions) = 1
    /\ model_info.model_parts[1].coords = <<-8, -8, -8, 16, 16, 16>>

(***************************************************************************)
(* Declarations and constructor assignments.                                *)
(***************************************************************************)
\* Every reordering of a part list.
PermutedParts(parts) ==
    {[i \in DOMAIN parts |-> parts[f[i]]] : f \in Permutations(DOMAIN parts)}

\* The names of all categories in their fixed order: body, tail, left arm,
\* right arm, head sub-parts, legs 1 to 8.
CategoryOrder ==
    body_parts \o tail_part_names \o left_arm_parts \o right_arm_parts \o head_parts
    \o leg_parts_for_num[1] \o leg_parts_for_num[2] \o leg_parts_for_num[3]
    \o leg_parts_for_num[4] \o leg_parts_for_num[5] \o leg_parts_for_num[6]
    \o leg_parts_for_num[7] \o leg_parts_for_num[8]

\* The names a text of declarations or assignments mentions, in text order.
RECURSIVE MentionedNames(_)
MentionedNames(lines) ==
    IF lines = <<>> THEN <<>>
    ELSE LET l == Head(lines)
         IN (CASE l.kind = "field" -> l.names
               [] l.kind = "getChild" -> <<l.field>>
               [] OTHER -> <<>>)
            \o MentionedNames(Tail(lines))

\* The names are in the order of the fixed categories, each at most once.
InCategoryOrder(names) ==
    LET pos(n) == CHOOSE k \in DOMAIN CategoryOrder : CategoryOrder[k] = n
    IN /\ \A i \in DOMAIN names : names[i] \in Range(CategoryOrder)
       /\ \A i, j \in DOMAIN names : i < j => pos(names[i]) < pos(names[j])

\* C13: the field declarations and the constructor assignments depend only
\* on the set of parts: every reordering of the part list gives the same two
\* texts (compared once per extracted description, right after extraction),
\* the names in them follow the fixed category order, and these are the
\* texts the answer carries.
C13_OrderIndependent ==
    (model_info # None /\ model_info.model_parts # <<>>) =>
        LET parts == model_info.model_parts
            declarations == generate_part_declarations_precise(parts)
            assignments == generate_constructor_assignments_precise(parts)
        IN /\ pc = "extracted" =>
                 \A q \in PermutedParts(parts) :
                    /\ generate_part_declarations_precise(q) = declarations
                    /\ generate_constructor_assignments_precise(q) = assignments
           /\ InCategoryOrder(MentionedNames(declarations))
           /\ InCategoryOrder(MentionedNames(assignments))
           /\ Converted =>
                 /\ response.converted_code.declarations = declarations
                 /\ response.converted_code.constructor = assignments

\* A text declaring a leg part, then the head, then seg1 has been converted:
\* the fields come out as head, seg1, leg2Seg1.
C13_Witness ==
    /\ Converted
    /\ code_input = <<Fld("leg2Seg1"), Fld("Head"), Fld("seg1")>>
    /\ MentionedNames(response.converted_code.declarations) = <<"head", "seg1", "leg2Seg1">>
    /\ MentionedNames(response.converted_code.constructor) = <<"head", "seg1", "leg2Seg1">>

C15_CallsIndependent ==
    \A id \in CallIds :
        LET call == calls[id]
        IN /\ call.model_info # None
                => call.model_info = extract_model_info(call.code_input).info
           /\ call.converted_code # None
                => call.converted_code = convert_model_code(call.code_input).code
           /\ call.pc = "done" => call.response = convert(call.code_input)

\* One call has been answered with a converted text while another call, on
\* a different text with parts of its own, holds its descriptor and has not
\* yet generated.
C15_Witness ==
    \E a, b \in CallIds :
        /\ a # b
        /\ calls[a].pc = "done" /\ calls[a].response.status = 200
        /\ calls[a].model_info.model_parts # <<>>
        /\ calls[b].pc = "extracted"
        /\ calls[b].model_info.model_parts # <<>>
        /\ calls[b].code_input # calls[a].code_input

(***************************************************************************)
(* Part discovery.                                                          *)
(***************************************************************************)
\* The declaration idiom of a statement, in the order the patterns are
\* tried: 1 typed field, 2 inline assignment, 3 "this.X = new ModelRenderer".
IdiomRank(s) ==
    CASE s.kind = "field" -> 1
      [] s.kind = "new" /\ s.form = "local" -> 2
      [] OTHER -> 3

\* The positions where the text declares the name.
Declarations(code, n) ==
    {i \in DOMAIN code : code[i].kind \in {"field", "new", "castbox"} /\ code[i].name = n}

\* The names of the extracted part list, in order.
PartNames == [i \in DOMAIN model_info.model_parts |-> model_info.model_parts[i].name]

\* C16 as stated: the part list holds each declared name once, and A comes
\* before B whenever the first declaration of A, in any idiom, is before the
\* first declaration of B in the text.
C16_FirstSeenOrder ==
    model_info # None =>
        /\ Range(PartNames) = DeclaredNames(code_input)
        /\ \A i, j \in DOMAIN PartNames : i # j => PartNames[i] # PartNames[j]
        /\ \A i, j \in DOMAIN PartNames :
              Min(Declarations(code_input, PartNames[i]))
                < Min(Declarations(code_input, PartNames[j])) => i < j

\* C16 amended: the part list holds each declared name once; the names are
\* ordered by idiom first (every typed field, then every inline assignment,
\* then every "this.X = new ModelRenderer"), a name counting for the first
\* idiom that declares it, and by position in the text within one idiom.
C16_IdiomThenTextOrder ==
    model_info # None =>
        /\ Range(PartNames) = DeclaredNames(code_input)
        /\ \A i, j \in DOMAIN PartNames : i # j => PartNames[i] # PartNames[j]
        /\ \A i, j \in DOMAIN PartNames :
              LET rank(n) == Min({IdiomRank(code_input[k]) :
                                     k \in Declarations(code_input, n)})
                  first(n) == Min({k \in Declarations(code_input, n) :
                                     IdiomRank(code_input[k]) = rank(n)})
                  a == PartNames[i]
                  b == PartNames[j]
              IN (\/ rank(a) < rank(b)
                  \/ rank(a) = rank(b) /\ first(a) < first(b)) => i < j

\* Head is constructed with "this.Head = new ModelRenderer" before body is
\* declared as a typed field, and the part list is body, Head.
C16_Witness ==
    /\ model_info # None
    /\ code_input = <<NewThis("Head", 0, 0), Fld("body")>>
    /\ PartNames = <<"body", "Head">>

(***************************************************************************)
(* The properties of one part.                                              *)
(***************************************************************************)
\* Positions of the statements of one kind that name the part.
StatementsOf(code, kind, part_name) ==
    {i \in DOMAIN code : code[i].kind = kind /\ code[i].name = part_name}

\* The part has an addBox statement of six numbers, and no texture offset
\* pattern can match: no constructor of the part and no setTextureOffset.
BoxWithoutTextureOffset(code, part_name) ==
    /\ \E i \in StatementsOf(code, "addBox", part_name) : Len(code[i].args) >= 6
    /\ \A i \in DOMAIN code :
          /\ code[i].kind \in {"new", "castbox"} => ~ends_with(code[i].name, part_name)
          /\ code[i].kind # "setTextureOffset"

\* The part has a constructor with a texture offset and the text has no
\* addBox at all.
TextureOffsetWithoutBox(code, part_name) ==
    /\ StatementsOf(code, "new", part_name) # {}
    /\ \A i \in DOMAIN code : ~has_addBox(code[i])

\* Pivot, initial rotation and mirror flag of a part come from the first
\* statement of their own kind naming the part, else keep their defaults.
OwnPatternProperties(code, p) ==
    LET pivots == StatementsOf(code, "setRotationPoint", p.name)
        rotations == StatementsOf(code, "setRotation", p.name)
        mirrors == StatementsOf(code, "mirror", p.name)
    IN /\ p.rotation_point = IF pivots = {} THEN <<0, 0, 0>>
                             ELSE floats_of(code[Min(pivots)].args).value
       /\ p.initial_rotation = IF rotations = {} THEN <<0, 0, 0>>
                               ELSE floats_of(code[Min(rotations)].args).value
       /\ p.mirror = IF mirrors = {} THEN TRUE ELSE code[Min(mirrors)].value

\* C17 as stated: each property is extracted on its own: a part whose box
\* statement is present while no texture offset pattern matches gets that
\* box and the default texture offset (0, 0), and a part whose texture
\* offset is present while no box statement is gets that texture offset
\* and the default box.
C17_PropertiesIndependent ==
    model_info # None =>
        \A k \in DOMAIN model_info.model_parts :
            LET p == model_info.model_parts[k]
                boxes == StatementsOf(code_input, "addBox", p.name)
                news == StatementsOf(code_input, "new", p.name)
            IN /\ OwnPatternProperties(code_input, p)
               /\ BoxWithoutTextureOffset(code_input, p.name)
                    => /\ p.coords
                            = floats_of(SubSeq(code_input[Min(boxes)].args, 1, 6)).value
                       /\ <<p.tex_u, p.tex_v>> = <<0, 0>>
               /\ TextureOffsetWithoutBox(code_input, p.name)
                    => /\ <<p.tex_u, p.tex_v>>
                            = <<code_input[Min(news)].u, code_input[Min(news)].v>>
                       /\ p.coords = <<0, 0, 0, 2, 2, 2>>

\* C17 amended: pivot, initial rotation and mirror flag are each extracted
\* by a pattern of their own, but texture offset and box are extracted
\* together by one initializer pattern: a part whose addBox is present
\* while no texture offset pattern matches keeps the default box as well as
\* the default texture offset, and a part whose constructor carries a
\* texture offset while the text has no addBox keeps the default texture
\* offset (0, 0) as well as the default box.
C17_TextureOffsetAndBoxTogether ==
    model_info # None =>
        \A k \in DOMAIN model_info.model_parts :
            LET p == model_info.model_parts[k]
            IN /\ OwnPatternProperties(code_input, p)
               /\ (\/ BoxWithoutTextureOffset(code_input, p.name)
                   \/ TextureOffsetWithoutBox(code_input, p.name))
                    => /\ p.coords = <<0, 0, 0, 2, 2, 2>>
                       /\ <<p.tex_u, p.tex_v>> = <<0, 0>>

\* head is declared and has its addBox of six numbers but no constructor:
\* its descriptor keeps the default box.
C17_Witness ==
    /\ model_info # None
    /\ code_input = <<Fld("head"), AddBox("head", Box888)>>
    /\ BoxWithoutTextureOffset(code_input, "head")
    /\ model_info.model_parts[1].coords = <<0, 0, 0, 2, 2, 2>>

(***************************************************************************)
(* Descriptor values against emitted values.                                *)
(***************************************************************************)
\* The state is an answered conversion that emitted a part whose first box
\* dimension is 2.5.
HalfDimensionEmitted ==
    /\ Converted
    /\ code_input = <<NewThis("head", 0, 0), AddBox("head", BoxHalf)>>
    /\ Len(EmittedDefinitions) = 1

\* C18 as stated: every number written in a part-definition statement is
\* the number the descriptor holds (values are exact halves here, so within
\* 1e-3 means equal): texture offset, box offset, box dimensions, pivot and
\* initial rotation; a non-integer dimension is written unaltered.
C18_RoundTrip ==
    Converted =>
        \A i \in DOMAIN EmittedDefinitions :
            LET d == EmittedDefinitions[i]
                p == model_info.model_parts[i]
            IN /\ <<d.texOffs[1], d.texOffs[2]>> = <<p.tex_u, p.tex_v>>
               /\ \A k \in 1..3 :
                     /\ d.box[k] = p.coords[k]
                     /\ 2 * d.dims[k] = p.coords[3 + k]
                     /\ d.offset[k] = p.rotation_point[k]
                     /\ d.rotation[k] = p.initial_rotation[k]

\* C18 amended: texture offset, box offset, pivot and initial rotation are
\* written with the value the descriptor holds; a box dimension is written
\* as the whole number obtained by dropping its fraction, so a whole
\* dimension is unaltered and a non-integer one is altered by less than 1
\* toward zero (2.5 is written 2).
C18_RoundTripButDimensions ==
    Converted =>
        /\ \A i \in DOMAIN EmittedDefinitions :
              LET d == EmittedDefinitions[i]
                  p == model_info.model_parts[i]
              IN /\ <<d.texOffs[1], d.texOffs[2]>> = <<p.tex_u, p.tex_v>>
                 /\ \A k \in 1..3 :
                       /\ d.box[k] = p.coords[k]
                       /\ d.offset[k] = p.rotation_point[k]
                       /\ d.rotation[k] = p.initial_rotation[k]
                       /\ p.coords[3 + k] % 2 = 0 => 2 * d.dims[k] = p.coords[3 + k]
                       /\ p.coords[3 + k] % 2 = 1 =>
                             IF p.coords[3 + k] > 0
                             THEN 2 * d.dims[k] = p.coords[3 + k] - 1
                             ELSE 2 * d.dims[k] = p.coords[3 + k] + 1
        /\ HalfDimensionEmitted => EmittedDefinitions[1].dims[1] = 2

\* The part with dimension 2.5 has been emitted and its descriptor holds 2.5.
C18_Witness ==
    /\ HalfDimensionEmitted
    /\ model_info.model_parts[1].coords[4] = 5

(***************************************************************************)
(* The animation methods of the input.                                      *)
(***************************************************************************)
\* Every comment of the emitted setupAnim body and helper methods.
EmittedAnimationComments ==
    UNION {Range(response.converted_code.setupAnim_text[k].comments) :
              k \in DOMAIN response.converted_code.setupAnim_text}
    \cup UNION {Range(response.converted_code.helper_methods_text[k].comments) :
                   k \in DOMAIN response.converted_code.helper_methods_text}

\* The conversion is answered with the Generic animation.
GenericConverted ==
    /\ Converted
    /\ response.converted_code.setupAnim = "generate_generic_animation"

\* A comment lists a method when the method's name stands in its text; the
\* comments of the generators are fixed texts and the names are single
\* words, so a comment holding a name is one made of that name.
Lists(comment, method_name) == comment = method_name

\* C19 as stated: for the Generic archetype the emitted animation holds the
\* placeholder stub and a comment listing the name of every animation
\* method the extractor discovered.
C19_DiscoveredMethodsListed ==
    GenericConverted =>
        /\ \E k \in DOMAIN response.converted_code.setupAnim_text :
              <<"doGenericAnim", 1>> \in response.converted_code.setupAnim_text[k].calls
        /\ \A i \in DOMAIN model_info.animation_methods :
              \E comment \in EmittedAnimationComments :
                 Lists(comment, model_info.animation_methods[i].name)

\* C19 amended: for the Generic archetype the emitted animation is the
\* placeholder stub alone: its comments are the fixed ones of the stub and
\* of doGenericAnim, no discovered method name is listed, and the text is
\* the one emitted for the same descriptor without its animation methods.
C19_DiscoveredMethodsDropped ==
    GenericConverted =>
        /\ \E k \in DOMAIN response.converted_code.setupAnim_text :
              <<"doGenericAnim", 1>> \in response.converted_code.setupAnim_text[k].calls
        /\ EmittedAnimationComments =
              {"Animação genérica - ajuste conforme necessário",
               "Implementar animação específica baseado no modelo",
               "Métodos de animação genéricos - ajuste conforme necessário"}
        /\ \A i \in DOMAIN model_info.animation_methods :
              \A comment \in EmittedAnimationComments :
                 ~Lists(comment, model_info.animation_methods[i].name)
        /\ response.converted_code
              = generate_modern_model([model_info EXCEPT !.animation_methods = <<>>]).code

\* A Generic model with the two discovered methods doTailAnim and setAngles
\* has been converted.
C19_Witness ==
    /\ GenericConverted
    /\ code_input = <<Fld("head"), Method("private", "doTailAnim"),
                      Method("private", "setAngles")>>
    /\ Len(model_info.animation_methods) = 2

(***************************************************************************)
(* The statements a part's box is taken from.                               *)
(***************************************************************************)
\* The part is constructed with "this.X = new ModelRenderer(this, u, v);"
\* and no addBox call in the text names it.
ConstructedWithoutBox(code, part_name) ==
    /\ \E i \in StatementsOf(code, "new", part_name) : code[i].form = "this"
    /\ StatementsOf(code, "addBox", part_name) = {}
    /\ StatementsOf(code, "castbox", part_name) = {}

\* C20: a part constructed with a texture offset and with no addBox call of
\* its own keeps the default box (0, 0, 0, 1, 1, 1), whatever addBox calls
\* of other parts follow its constructor.
C20_BoxOnlyFromOwnStatements ==
    model_info # None =>
        \A k \in DOMAIN model_info.model_parts :
            ConstructedWithoutBox(code_input, model_info.model_parts[k].name)
                => model_info.model_parts[k].coords = <<0, 0, 0, 2, 2, 2>>

(***************************************************************************)
(* The fourth initializer pattern.                                          *)
(***************************************************************************)
\* The parts of the text that the fourth initializer pattern,
\* "this.X.addBox(<six numbers>) ... setTextureOffset(u, v)", initialises:
\* no earlier pattern matches and the box holds six float literals.
PatternFourParts(code) ==
    LET names == part_declarations(code)
    IN {names[k] : k \in {i \in DOMAIN names :
           LET m == init_match(code, names[i])
           IN /\ m.pattern = 4
              /\ Len(m.args) = 6
              /\ \A a \in DOMAIN m.args : m.args[a] \in DOMAIN float_of_literal}}

\* C21: for a part initialised with "this.X.addBox(x,y,z,w,h,d) ...
\* setTextureOffset(u, v)" extraction does not raise and gives the part the
\* texture offset (u, v) and the box (x, y, z, w, h, d).
C21_PatternFourExtracts ==
    (pc \notin {"idle", "received"} /\ PatternFourParts(code_input) # {}) =>
        /\ raised = "none"
        /\ model_info # None
        /\ \A k \in DOMAIN model_info.model_parts :
              LET p == model_info.model_parts[k]
                  m == init_match(code_input, p.name)
              IN p.name \in PatternFourParts(code_input) =>
                    /\ <<p.tex_u, p.tex_v>> = <<m.u, m.v>>
                    /\ p.coords = floats_of(m.args).value

(***************************************************************************)
(* Children the constructor looks up.                                       *)
(***************************************************************************)
\* The child names of the getChild lookups of the returned constructor.
LookedUpChildren ==
    {response.converted_code.constructor[i].child :
        i \in {k \in DOMAIN response.converted_code.constructor :
                  response.converted_code.constructor[k].kind = "getChild"}}

\* The child names createBodyLayer of the returned text defines.
DefinedChildren ==
    {EmittedDefinitions[i].name : i \in DOMAIN EmittedDefinitions}

\* C22: every constructor assignment this.P = root.getChild("P") of a
\* returned text names a child P that an addOrReplaceChild("P", ...)
\* statement of createBodyLayer in the same text defines.
C22_LookedUpChildrenDefined ==
    Converted => LookedUpChildren \subseteq DefinedChildren

(***************************************************************************)
(* Fields the emitted animation refers to.                                  *)
(***************************************************************************)
\* The model-part fields the returned setupAnim body and helper methods
\* refer to; wingspeed is the float field of the class, no model part.
ReferencedPartFields ==
    (UNION {response.converted_code.setupAnim_text[i].fields :
               i \in DOMAIN response.converted_code.setupAnim_text}
     \cup UNION {response.converted_code.helper_methods_text[i].fields :
                    i \in DOMAIN response.converted_code.helper_methods_text})
    \ {"wingspeed"}

\* The fields the returned text declares as private final ModelPart.
DeclaredFields == Range(MentionedNames(response.converted_code.declarations))

\* The fields the returned constructor assigns.
AssignedFields ==
    {response.converted_code.constructor[i].field :
        i \in {k \in DOMAIN response.converted_code.constructor :
                  response.converted_code.constructor[k].kind = "getChild"}}

\* A text classified as EmperorScorpion has been converted.
EmperorConverted ==
    Converted /\ response.converted_code.setupAnim = "generate_emperorscorpion_animation"

\* C23: in a returned EmperorScorpion text every model-part field the
\* setupAnim body or a helper method refers to is declared as a field and
\* assigned in the constructor of that text.
C23_ReferencedFieldsDeclared ==
    EmperorConverted =>
        /\ ReferencedPartFields \subseteq DeclaredFields
        /\ ReferencedPartFields \subseteq AssignedFields

(***************************************************************************)
(* Local variables of the emitted setupAnim body.                           *)
(***************************************************************************)
\* The local variables declared in the first k blocks of an animation body.
DeclaredUpTo(blocks, k) == UNION {blocks[i].declares : i \in 1..k}

\* C24: in a returned EmperorScorpion setupAnim body every local variable a
\* block uses is declared in that block or in a block before it, whichever
\* part groups are present; the tail block's randomValue2 in particular.
C24_LocalsDeclaredBeforeUse ==
    EmperorConverted =>
        LET blocks == response.converted_code.setupAnim_text
        IN \A k \in DOMAIN blocks : blocks[k].uses \subseteq DeclaredUpTo(blocks, k)

(***************************************************************************)
(* Helper methods called and defined.                                       *)
(***************************************************************************)
\* The animation generator and the helper-method generator of each
\* archetype.
ArchetypeGenerators ==
    {<<"generate_pitchblack_animation", "generate_pitchblack_methods">>,
     <<"generate_emperorscorpion_animation", "generate_emperorscorpion_methods">>,
     <<"generate_generic_animation", "generate_generic_methods">>}

\* The helper calls of the returned setupAnim body, each <<name, number of
\* arguments>>.
EmittedCalls ==
    UNION {response.converted_code.setupAnim_text[i].calls :
              i \in DOMAIN response.converted_code.setupAnim_text}

\* The positions in the returned helper-method section defining a method.
DefinitionsOf(method_name) ==
    {i \in DOMAIN response.converted_code.helper_methods_text :
        response.converted_code.helper_methods_text[i].method = method_name}

\* C25: the animation body and the helper methods of a returned text come
\* from the same archetype, and every helper method the setupAnim body calls
\* is defined exactly once in the helper-method section, with as many
\* parameters as the call has arguments.
C25_CalledHelpersDefinedOnce ==
    Converted =>
        /\ <<response.converted_code.setupAnim, response.converted_code.helper_methods>>
              \in ArchetypeGenerators
        /\ \A call \in EmittedCalls :
              /\ call[1] \in {"doLeftLegAnim", "doRightLegAnim", "doLeftClawAnim",
                              "doRightClawAnim", "doTailAnim", "doWingAnim",
                              "doGenericAnim"}
              /\ Cardinality(DefinitionsOf(call[1])) = 1
              /\ \A i \in DefinitionsOf(call[1]) :
                    response.converted_code.helper_methods_text[i].params = call[2]

\* An EmperorScorpion text with a tail part and an arm part has been
\* converted: its setupAnim body calls doTailAnim and the two claw helpers
\* with one argument each.
C25_Witness ==
    /\ EmperorConverted
    /\ code_input = <<Fld("Tailseg1"), Fld("LeftArmSeg1")>>
    /\ EmittedCalls = {<<"doLeftClawAnim", 1>>, <<"doRightClawAnim", 1>>, <<"doTailAnim", 1>>}
    /\ Cardinality(DefinitionsOf("doTailAnim")) = 1

(***************************************************************************)
(* The name normalizer.                                                     *)
(***************************************************************************)
\* C26: normalize_part_name returns a name outside its mapping table as it
\* is, and applying it to its own result changes nothing:
\* normalize_part_name(normalize_part_name(n)) = normalize_part_name(n).
C26_IdentityOffTableAndIdempotent ==
    /\ (Len(normalized) >= 2 /\ normalized[1] \notin DOMAIN name_mappings)
          => normalized[2] = normalized[1]
    /\ \A k \in 3..Len(normalized) : normalized[k] = normalized[2]

\* Body has been normalized to head, and head to head again.
C26_Witness == normalized = <<"Body", "head", "head">>

====
